---- MODULE Spec2Model ----
(***************************************************************************)
(* Model of the virtual-file-system synchronisation engine of              *)
(* markdown-preview-hub: the IndexedDB entry store (lib/database.ts), the  *)
(* overlay mutation API (lib/virtual-fs.ts), the directory scanner         *)
(* (lib/file-system.ts) and the reconciliation engine and scheduler        *)
(* (lib/polling.ts).                                                       *)
(*                                                                         *)
(* Paths are sequences of one-character strings ("/" is a character), so   *)
(* that String.startsWith, String.replace and the rename regular           *)
(* expression are computed on characters as the code computes them.        *)
(*                                                                         *)
(* Every asynchronous operation is a process with a position (pc) and its  *)
(* local variables; one step runs from one await to the next.  An await    *)
(* of a read merged with the following step is noted at the action.        *)
(* updateFile (a get followed by a put) is taken as one step.              *)
(***************************************************************************)
EXTENDS Integers, Sequences, FiniteSets, TLC

VARIABLES
  db,             \* the 'files' object store: a set of VirtualFile records, keyed by id
  disk,           \* the user's disk: disk file path -> [exists, lastModified, content]
  now,            \* the clock that stamps disk writes (File.lastModified)
  perm,           \* what queryPermission answers for the handles of the opened roots
  nextGen,        \* number of id batches drawn so far from crypto.randomUUID
  activeFileId,   \* polling.ts activeFileId
  chk,            \* the per-entry check in flight (checkFileChange)
  sv,             \* the saveToDisk in flight
  rs,             \* the full or scoped rescan in flight
  pl,             \* the lightweight directory scan in flight (pollForNewFiles)
  rn,             \* the renameFile in flight
  sched,          \* the scheduler of polling.ts: its module variables and the
                  \* timers and the focus listener registered with the window
  od,             \* the syncFileOnDemand in flight
  plFocus,        \* the pollForNewFiles of handleWindowFocus in flight
  isSyncing,      \* polling.ts isSyncing signal
  conflictFile,   \* polling.ts conflictFile signal: id of the entry in conflict
  conflictDiskContent,  \* polling.ts conflictDiskContent signal
  permissionLost, \* file-store.ts permissionLost signal
  fileChanged,    \* number of onFileChanged notifications raised so far
  lastResolution  \* the button the user pressed last in the conflict modal

\* The signals the user interface reads
sigs == <<conflictFile, conflictDiskContent, permissionLost, fileChanged, lastResolution>>

vars == <<db, disk, now, perm, nextGen, activeFileId, chk, sv, rs, pl, rn, sched, od, plFocus,
         isSyncing, sigs>>

----------------------------------------------------------------------------
(* Bounds of the model *)

MaxTime == 3      \* disk writes (external or by saveToDisk) in one behaviour
MaxGen == 3       \* id batches (scans, uploads, creations) in one behaviour
MaxPathLen == 5   \* renames start while no stored path is longer than this
MaxChanged == 2   \* uploads start while fewer notifications than this were raised
MaxTimers == 5    \* setInterval calls in one behaviour
MaxStarting == 2  \* startPolling calls suspended at getSettings at one time

----------------------------------------------------------------------------
(* Null values: JavaScript null of each type *)

NoPath == <<>>                        \* null handle / null realPath
NoText == "null"                      \* null contentOverride
NoTime == 0                           \* null diskLastModified (falsy, as 0 is)
NoId == [gen |-> 0, p |-> NoPath]     \* null file id
NoFile == [id |-> NoId]               \* undefined result of getFile

----------------------------------------------------------------------------
(* Paths *)

Slash == "/"

RootA == <<"A">>                      \* the opened project folder
RootB == <<"B">>                      \* a second folder, imported with uploadFolder

Join(parent, name) == parent \o <<Slash>> \o name

\* String.prototype.startsWith
StartsWith(s, prefix) ==
  /\ Len(prefix) <= Len(s)
  /\ SubSeq(s, 1, Len(prefix)) = prefix

\* Index of the last "/" of s, 0 when there is none
LastSlash(s) ==
  LET idx == {i \in 1..Len(s) : s[i] = Slash}
  IN IF idx = {} THEN 0 ELSE CHOOSE i \in idx : \A j \in idx : j <= i

\* The replacement text of String.prototype.replace: $$ is a dollar sign, $& the
\* matched text, $` the text before the match and $' the text after it; a dollar
\* sign followed by anything else stands for itself (the patterns used here have
\* no capture group)
RECURSIVE GetSubstitution(_, _, _, _)
GetSubstitution(replacement, matched, before, after) ==
  IF replacement = <<>> THEN <<>>
  ELSE IF Len(replacement) >= 2 /\ replacement[1] = "$"
            /\ replacement[2] \in {"$", "&", "`", "'"}
       THEN (CASE replacement[2] = "$" -> <<"$">>
               [] replacement[2] = "&" -> matched
               [] replacement[2] = "`" -> before
               [] replacement[2] = "'" -> after)
              \o GetSubstitution(SubSeq(replacement, 3, Len(replacement)),
                                 matched, before, after)
       ELSE <<replacement[1]>>
              \o GetSubstitution(Tail(replacement), matched, before, after)

\* s.replace(/[^/]+$/, newName): the last segment replaced; no match, and s as
\* it is, when s is empty or ends with a slash
ReplaceLastSegment(s, newName) ==
  IF LastSlash(s) = Len(s) THEN s
  ELSE LET before == SubSeq(s, 1, LastSlash(s))
           matched == SubSeq(s, LastSlash(s) + 1, Len(s))
       IN before \o GetSubstitution(newName, matched, before, <<>>)

\* s.split('/')[0]
FirstSegment(s) ==
  LET idx == {i \in 1..Len(s) : s[i] = Slash}
  IN IF idx = {} THEN s
     ELSE SubSeq(s, 1, (CHOOSE i \in idx : \A j \in idx : i <= j) - 1)

\* s.split('/').slice(0, -1).join('/')
ParentPath(s) == IF LastSlash(s) = 0 THEN <<>> ELSE SubSeq(s, 1, LastSlash(s) - 1)

\* s.replace(pattern, replacement) with a string pattern: the first occurrence
\* of the pattern replaced, s as it is when there is none
Replace(s, pattern, replacement) ==
  LET at == {i \in 1..(Len(s) - Len(pattern) + 1) :
               SubSeq(s, i, i + Len(pattern) - 1) = pattern}
  IN IF at = {} THEN s
     ELSE LET i == CHOOSE k \in at : \A j \in at : k <= j
              before == SubSeq(s, 1, i - 1)
              after == SubSeq(s, i + Len(pattern), Len(s))
          IN before \o GetSubstitution(replacement, pattern, before, after) \o after

\* The name of an entry: the last segment of the path it is created with
LastSegment(s) == SubSeq(s, LastSlash(s) + 1, Len(s))

\* The markdown files the disk may hold, by absolute path
FileDX == <<"A", "/", "d", "/", "x">>     \* A/d/x
FileDXs == <<"A", "/", "d", "x">>         \* A/dx, a sibling of folder A/d
FileN == <<"A", "/", "n">>                \* A/n, absent from disk at first
FileBY == <<"B", "/", "y">>               \* B/y
DiskFiles == {FileDX, FileDXs, FileN, FileBY}

\* Every proper ancestor directory of a path, the root included
Ancestors(p) == {SubSeq(p, 1, i - 1) : i \in {j \in 1..Len(p) : p[j] = Slash}}

----------------------------------------------------------------------------
(* The disk and the capability store (lib/file-system.ts) *)

Min(S) == CHOOSE x \in S : \A y \in S : x <= y

\* s.replace(/\/+$/, ''): trailing slashes removed
StripTrailingSlashes(s) ==
  SubSeq(s, 1, Min({i \in 0..Len(s) : \A j \in (i + 1)..Len(s) : s[j] = Slash}))

AbsentFile == [exists |-> FALSE, lastModified |-> NoTime, content |-> NoText]

\* A directory exists on disk while it holds a markdown file at some depth
DirExists(d, dir) == \E p \in DiskFiles : d[p].exists /\ StartsWith(p, dir \o <<Slash>>)

\* handle.queryPermission(...) === 'granted'
hasFilePermissionAlways == TRUE

hasFilePermission == perm = "granted"

\* An access through a file handle fails: the permission query answers other
\* than granted (getFile() and createWritable() then reject with NotAllowedError)
\* or the file is gone (NotFoundError)
HandleFailsNever(d, h) == FALSE

HandleFails(d, h) == ~hasFilePermission \/ ~d[h].exists

\* One VirtualFile. lastSyncedAt, createdAt and updatedAt are written and never
\* read by the engine; they are left out.
NewEntry(id, path, realPath, fileHandle, dirHandle, content, dirty, webOnly, diskLastModified, status, type) ==
  [id |-> id, path |-> path, virtualName |-> LastSegment(path), realPath |-> realPath,
   fileHandle |-> fileHandle,
   dirHandle |-> dirHandle, contentOverride |-> content, isDirty |-> dirty,
   isHidden |-> FALSE, isWebOnly |-> webOnly, diskLastModified |-> diskLastModified,
   status |-> status, type |-> type]

\* The file entry scanDirectory pushes for the disk file p found under handle h
ScannedFile(d, h, p, gen) ==
  LET rel == SubSeq(p, Len(h) + 2, Len(p))
  IN NewEntry([gen |-> gen, p |-> p], rel, rel, p, ParentPath(p), NoText, FALSE, FALSE,
              d[p].lastModified, "synced", "file")

\* The folder entry scanDirectory pushes for the directory dir found under handle h
ScannedFolder(h, dir, gen) ==
  LET rel == SubSeq(dir, Len(h) + 2, Len(dir))
  IN NewEntry([gen |-> gen, p |-> dir], rel, rel, NoPath, dir, NoText, FALSE, FALSE,
              NoTime, "synced", "folder")

\* scanDirectory(dirHandle, projectId): the markdown files below the handle and
\* the folders that hold one, with paths relative to the handle and fresh ids
scanDirectory(d, h, gen) ==
  LET found == {p \in DiskFiles : d[p].exists /\ StartsWith(p, h \o <<Slash>>)}
      dirs == {a \in UNION {Ancestors(p) : p \in found} : StartsWith(a, h \o <<Slash>>)}
  IN {ScannedFile(d, h, p, gen) : p \in found}
       \cup {ScannedFolder(h, dir, gen) : dir \in dirs}

\* `${prefix}/${f.path}`.replace(/\/+$/, '') as path and realPath
Prepend(f, prefix) ==
  LET prependedPath == StripTrailingSlashes(Join(prefix, f.path))
  IN [f EXCEPT !.path = prependedPath, !.realPath = prependedPath]

\* The root folder entry openFolder and fullRescanFromDisk create
RootFolderEntry(root, gen) ==
  NewEntry([gen |-> gen, p |-> root], root, root, NoPath, root, NoText, FALSE, FALSE,
           NoTime, "synced", "folder")

----------------------------------------------------------------------------
(* The entry store (lib/database.ts) *)

\* getFile(id): the record, or undefined
getFile(d, id) == IF \E f \in d : f.id = id THEN CHOOSE f \in d : f.id = id ELSE NoFile

\* put: the record replaces the one with the same key
Put(d, rec) == {f \in d : f.id # rec.id} \cup {rec}

\* saveFiles(files): one transaction of puts
saveFiles(d, recs) == {f \in d : \A r \in recs : r.id # f.id} \cup recs

\* updateFile(id, updates): { ...file, ...updates } put back, nothing when absent
updateFile(d, id, updates) ==
  IF \E f \in d : f.id = id
  THEN LET file == CHOOSE f \in d : f.id = id
       IN Put(d, [k \in DOMAIN file |->
                    IF k \in DOMAIN updates THEN updates[k] ELSE file[k]])
  ELSE d

Paths(d) == {f.path : f \in d}

----------------------------------------------------------------------------
(* Initial state: the project folder A has just been opened (openFolder) *)

Texts == {"t1", "t2"}                 \* what the user types
ExternalText == "ext"                 \* what another program writes to disk
EmptyText == ""

InitDisk ==
  [p \in DiskFiles |->
     IF p = FileN THEN AbsentFile
     ELSE [exists |-> TRUE, lastModified |-> 1, content |-> "t0"]]

\* openFolder: [rootFolder, ...scannedFiles with the root name prepended]
openFolderFiles(d, root, gen) ==
  {RootFolderEntry(root, gen)} \cup {Prepend(f, root) : f \in scanDirectory(d, root, gen)}

IdleChk == [pc |-> "idle", file |-> NoFile, diskModified |-> NoTime, diskContent |-> NoText]
IdleSv == [pc |-> "idle", file |-> NoFile, handle |-> NoPath, lastModified |-> NoTime]
IdleRs == [pc |-> "idle", kind |-> "none", root |-> NoPath, file |-> NoFile,
           handle |-> NoPath, diskFiles |-> {}, existingFiles |-> {}, allFiles |-> {},
           result |-> "none"]
IdlePl == [pc |-> "idle", onDisk |-> {}, newFiles |-> {}]
IdleRn == [pc |-> "idle", file |-> NoFile, newPath |-> NoPath, allFiles |-> {},
           children |-> {}]

\* polling.ts: the periods of the two timers, in milliseconds
DEFAULT_ACTIVE_INTERVAL == 30000
DIR_SCAN_INTERVAL == 60000

\* The periods the settings dialog offers for the active-file timer
IntervalOptions == {30000, 60000}

NoTimer == 0                          \* null activeTimer / dirScanTimer

\* The scheduler before startPolling: isPolling, activeTimer, dirScanTimer and
\* currentInterval are the module variables of polling.ts; timers and focus are
\* what is registered with the window (setInterval, addEventListener); starting
\* counts the startPolling calls suspended at getSettings; settings is the
\* stored pollingActiveInterval and nextTimer the last id setInterval returned
IdleSched ==
  [isPolling |-> FALSE, activeTimer |-> NoTimer, dirScanTimer |-> NoTimer,
   currentInterval |-> DEFAULT_ACTIVE_INTERVAL, timers |-> {}, focus |-> FALSE,
   starting |-> 0, settings |-> DEFAULT_ACTIVE_INTERVAL, nextTimer |-> 0]

Init ==
  /\ disk = InitDisk
  /\ now = 1
  /\ perm = "granted"
  /\ nextGen = 1
  /\ db = openFolderFiles(InitDisk, RootA, 1)
  /\ activeFileId \in {NoId, [gen |-> 1, p |-> FileDX]}
  /\ chk = IdleChk
  /\ sv = IdleSv
  /\ rs = IdleRs
  /\ pl = IdlePl
  /\ rn = IdleRn
  /\ sched = IdleSched
  /\ od = IdleChk
  /\ plFocus = IdlePl
  /\ isSyncing = FALSE
  /\ conflictFile = NoId
  /\ conflictDiskContent = EmptyText
  /\ permissionLost = FALSE
  /\ fileChanged = 0
  /\ lastResolution = "none"

\* No asynchronous operation is suspended at an await
Quiet ==
  /\ chk.pc = "idle"
  /\ sv.pc = "idle"
  /\ rs.pc = "idle"
  /\ pl.pc = "idle"
  /\ rn.pc = "idle"
  /\ od.pc = "idle"
  /\ plFocus.pc = "idle"

----------------------------------------------------------------------------
(* The environment: other programs writing the disk, the browser's permission *)

\* Another program modifies an existing file
DiskModify(p) ==
  /\ now < MaxTime
  /\ disk[p].exists
  /\ now' = now + 1
  /\ disk' = [disk EXCEPT ![p] = [exists |-> TRUE, lastModified |-> now + 1,
                                  content |-> ExternalText]]
  /\ UNCHANGED <<isSyncing, plFocus, od, sched, db, perm, nextGen, activeFileId, chk, sv, rs,
                 pl, rn, sigs>>

\* Another program creates a file
DiskCreate(p) ==
  /\ now < MaxTime
  /\ ~disk[p].exists
  /\ now' = now + 1
  /\ disk' = [disk EXCEPT ![p] = [exists |-> TRUE, lastModified |-> now + 1,
                                  content |-> ExternalText]]
  /\ UNCHANGED <<isSyncing, plFocus, od, sched, db, perm, nextGen, activeFileId, chk, sv, rs,
                 pl, rn, sigs>>

\* Another program deletes a file
DiskDelete(p) ==
  /\ disk[p].exists
  /\ disk' = [disk EXCEPT ![p] = AbsentFile]
  /\ UNCHANGED <<isSyncing, plFocus, od, sched, db, now, perm, nextGen, activeFileId, chk, sv,
                 rs, pl, rn, sigs>>

\* The browser drops the granted permission (a reload, a revoked grant)
PermissionRevoked ==
  /\ perm = "granted"
  /\ perm' = "prompt"
  /\ UNCHANGED <<isSyncing, plFocus, od, sched, db, disk, now, nextGen, activeFileId, chk, sv,
                 rs, pl, rn, sigs>>

----------------------------------------------------------------------------
(* checkFileChange (lib/polling.ts), entered from pollActiveFile,            *)
(* syncFileOnDemand or handleWindowFocus with the record getFile returned    *)

\* The comparison of checkFileChange on the record it was given:
\* "none" (skip), "conflict" or "reload"
CheckDecisionStrict(file, diskModified) ==
  IF file.diskLastModified # NoTime /\ diskModified < file.diskLastModified
  THEN "none"
  ELSE IF file.isDirty THEN "conflict" ELSE "reload"

CheckDecision(file, diskModified) ==
  IF file.diskLastModified # NoTime /\ diskModified <= file.diskLastModified
  THEN "none"
  ELSE IF file.isDirty THEN "conflict" ELSE "reload"

\* The updates checkFileChange hands to updateFile
ConflictUpdatesStatusOnly(diskModified) == [status |-> "conflict"]

ConflictUpdates(diskModified) == [status |-> "conflict", diskLastModified |-> diskModified]
ReloadUpdates(diskModified) == [diskLastModified |-> diskModified, status |-> "synced"]

\* getFile, then the guard "!file.fileHandle || file.isWebOnly"
CheckStart(id) ==
  /\ chk.pc = "idle"
  /\ LET file == getFile(db, id)
     IN /\ file # NoFile
        /\ file.fileHandle # NoPath
        /\ ~file.isWebOnly
        /\ chk' = [IdleChk EXCEPT !.pc = "meta", !.file = file]
  /\ UNCHANGED <<isSyncing, plFocus, od, sched, db, disk, now, perm, nextGen, activeFileId, sv,
                 rs, pl, rn, sigs>>

\* hasFilePermission and getFileMetadata (two reads of the environment, one step),
\* then the comparison; a throw of getFile() is caught and ends the check
CheckMeta ==
  /\ chk.pc = "meta"
  /\ LET h == chk.file.fileHandle
         decision == CheckDecision(chk.file, disk[h].lastModified)
     IN IF HandleFails(disk, h) \/ decision = "none"
        THEN chk' = IdleChk
        ELSE chk' = [chk EXCEPT !.pc = IF decision = "conflict" THEN "read" ELSE "reload",
                                !.diskModified = disk[h].lastModified]
  /\ UNCHANGED <<isSyncing, plFocus, od, sched, db, disk, now, perm, nextGen, activeFileId, sv,
                 rs, pl, rn, sigs>>

\* readFileContent for the conflict modal
CheckRead ==
  /\ chk.pc = "read"
  /\ LET h == chk.file.fileHandle
     IN IF HandleFails(disk, h)
        THEN chk' = IdleChk
        ELSE chk' = [chk EXCEPT !.pc = "conflict", !.diskContent = disk[h].content]
  /\ UNCHANGED <<isSyncing, plFocus, od, sched, db, disk, now, perm, nextGen, activeFileId, sv,
                 rs, pl, rn, sigs>>

\* updateFile(status: 'conflict'), the conflict signals and onConflictDetected
CheckConflict ==
  /\ chk.pc = "conflict"
  /\ db' = updateFile(db, chk.file.id, ConflictUpdates(chk.diskModified))
  /\ conflictFile' = chk.file.id
  /\ conflictDiskContent' = chk.diskContent
  /\ chk' = IdleChk
  /\ UNCHANGED <<isSyncing, plFocus, od, sched, disk, now, perm, nextGen, activeFileId, sv, rs,
                 pl, rn, permissionLost, fileChanged, lastResolution>>

\* updateFile(status: 'synced') and onFileChanged
CheckReload ==
  /\ chk.pc = "reload"
  /\ db' = updateFile(db, chk.file.id, ReloadUpdates(chk.diskModified))
  /\ fileChanged' = fileChanged + 1
  /\ chk' = IdleChk
  /\ UNCHANGED <<isSyncing, plFocus, od, sched, disk, now, perm, nextGen, activeFileId, sv, rs,
                 pl, rn, conflictFile, conflictDiskContent, permissionLost, lastResolution>>

----------------------------------------------------------------------------
(* The overlay mutation API (lib/virtual-fs.ts) *)

\* updateContent(fileId, content), called by the editor on the open file
updateContent(id, content) ==
  /\ getFile(db, id) # NoFile
  /\ getFile(db, id).type = "file"
  /\ db' = updateFile(db, id, [contentOverride |-> content, isDirty |-> TRUE,
                               status |-> "modified"])
  /\ UNCHANGED <<isSyncing, plFocus, od, sched, disk, now, perm, nextGen, activeFileId, chk, sv,
                 rs, pl, rn, sigs>>

\* The updates saveToDisk hands to updateFile after writing through the entry's handle
SavedUpdates(lastModified) ==
  [contentOverride |-> NoText, isDirty |-> FALSE, diskLastModified |-> lastModified,
   status |-> "synced"]

\* The updates saveToDisk hands to updateFile after writing a web-only entry
\* through the handle the save picker returned
SavedNewUpdates(file, handle, lastModified) ==
  [fileHandle |-> handle, realPath |-> file.path, contentOverride |-> NoText,
   isDirty |-> FALSE, isWebOnly |-> FALSE, diskLastModified |-> lastModified,
   status |-> "synced"]

\* contentToSave ?? ''
ContentToSave(file) ==
  IF file.contentOverride = NoText THEN EmptyText ELSE file.contentOverride

\* saveToDisk: getFile and the early return for a web-only entry without content
SaveStart(id) ==
  /\ sv.pc = "idle"
  /\ LET file == getFile(db, id)
     IN /\ file # NoFile
        /\ file.type = "file"
        /\ ~(file.contentOverride = NoText /\ file.isWebOnly)
        /\ sv' = [IdleSv EXCEPT !.pc = IF file.fileHandle # NoPath THEN "write" ELSE "pick",
                                !.file = file]
  /\ UNCHANGED <<isSyncing, plFocus, od, sched, db, disk, now, perm, nextGen, activeFileId, chk,
                 rs, pl, rn, sigs>>

\* writeFileContent(file.fileHandle, content): createWritable, write and close
\* as one disk write; it throws (and saveToDisk ends) without permission or when
\* the file is gone
SaveWrite ==
  /\ sv.pc = "write"
  /\ LET h == sv.file.fileHandle
     IN IF HandleFails(disk, h)
        THEN /\ sv' = IdleSv
             /\ UNCHANGED <<disk, now>>
        ELSE /\ now < MaxTime
             /\ now' = now + 1
             /\ disk' = [disk EXCEPT ![h] = [exists |-> TRUE, lastModified |-> now + 1,
                                             content |-> ContentToSave(sv.file)]]
             /\ sv' = [sv EXCEPT !.pc = "stat", !.handle = h]
  /\ UNCHANGED <<isSyncing, plFocus, od, sched, db, perm, nextGen, activeFileId, chk, rs, pl,
                 rn, sigs>>

\* writeFileContent, after the close: handle.getFile() and the lastModified it
\* returns, which is the timestamp the disk has by then
SaveStat ==
  /\ sv.pc = "stat"
  /\ IF HandleFails(disk, sv.handle)
     THEN sv' = IdleSv
     ELSE sv' = [sv EXCEPT !.pc = "update",
                           !.lastModified = disk[sv.handle].lastModified]
  /\ UNCHANGED <<isSyncing, plFocus, od, sched, db, disk, now, perm, nextGen, activeFileId, chk,
                 rs, pl, rn, sigs>>

\* updateFile after the write through the entry's handle
SaveUpdate ==
  /\ sv.pc = "update"
  /\ db' = updateFile(db, sv.file.id, SavedUpdates(sv.lastModified))
  /\ sv' = IdleSv
  /\ UNCHANGED <<isSyncing, plFocus, od, sched, disk, now, perm, nextGen, activeFileId, chk, rs,
                 pl, rn, sigs>>

\* showSaveFilePicker for a web-only entry: the user cancels or the write
\* through the picked handle throws (both are swallowed by the catch), or the
\* user accepts the suggested name in the entry's folder and the content is
\* written there
SavePick ==
  /\ sv.pc = "pick"
  /\ \/ /\ sv' = IdleSv
        /\ UNCHANGED <<disk, now>>
     \/ /\ sv.file.path \in DiskFiles
        /\ now < MaxTime
        /\ now' = now + 1
        /\ disk' = [disk EXCEPT ![sv.file.path] =
                      [exists |-> TRUE, lastModified |-> now + 1,
                       content |-> ContentToSave(sv.file)]]
        /\ sv' = [sv EXCEPT !.pc = "updateNew", !.handle = sv.file.path,
                            !.lastModified = now + 1]
  /\ UNCHANGED <<isSyncing, plFocus, od, sched, db, perm, nextGen, activeFileId, chk, rs, pl,
                 rn, sigs>>

\* updateFile after the write of a web-only entry
SaveUpdateNew ==
  /\ sv.pc = "updateNew"
  /\ db' = updateFile(db, sv.file.id, SavedNewUpdates(sv.file, sv.handle, sv.lastModified))
  /\ sv' = IdleSv
  /\ UNCHANGED <<isSyncing, plFocus, od, sched, disk, now, perm, nextGen, activeFileId, chk, rs,
                 pl, rn, sigs>>

\* The updates syncFromDisk and resolveConflict('use-disk') hand to updateFile
DiskVersionUpdatesKeepText(lastModified) ==
  [isDirty |-> FALSE, diskLastModified |-> lastModified, status |-> "synced"]

DiskVersionUpdates(lastModified) ==
  [contentOverride |-> NoText, isDirty |-> FALSE, diskLastModified |-> lastModified,
   status |-> "synced"]

\* syncFromDisk(fileId), the whole handler
syncFromDiskUnguarded(id) ==
  /\ LET file == getFile(db, id)
     IN /\ file # NoFile
        /\ file.fileHandle # NoPath
        /\ db' = updateFile(db, id, DiskVersionUpdates(disk[file.fileHandle].lastModified))
  /\ UNCHANGED <<isSyncing, plFocus, od, sched, disk, now, perm, nextGen, activeFileId, chk, sv,
                 rs, pl, rn, sigs>>

syncFromDisk(id) ==
  /\ LET file == getFile(db, id)
     IN /\ file # NoFile
        /\ file.fileHandle # NoPath
        /\ IF ~hasFilePermission
           THEN /\ permissionLost' = TRUE
                /\ db' = db
           ELSE /\ disk[file.fileHandle].exists     \* else getFile() throws to the caller
                /\ db' = updateFile(db, id,
                           DiskVersionUpdates(disk[file.fileHandle].lastModified))
                /\ UNCHANGED permissionLost
  /\ UNCHANGED <<isSyncing, plFocus, od, sched, disk, now, perm, nextGen, activeFileId, chk, sv,
                 rs, pl, rn, conflictFile, conflictDiskContent, fileChanged, lastResolution>>

\* The updates resolveConflict('keep-web') hands to updateFile
KeepWebUpdatesForgetDisk == [status |-> "modified", diskLastModified |-> NoTime]

KeepWebUpdates == [status |-> "modified"]

\* The conflict modal: resolveConflict(file.id, resolution), then clearConflict;
\* after 'use-disk' the modal also selects the file (selectFile, whose
\* getContent reads the disk with the permission resolveConflict just had)
resolveConflict(resolution) ==
  /\ conflictFile # NoId
  /\ LET file == getFile(db, conflictFile)
     IN /\ IF file = NoFile \/ file.fileHandle = NoPath
           THEN db' = db
           ELSE IF resolution = "keep-web"
           THEN db' = updateFile(db, file.id, KeepWebUpdates)
           ELSE /\ hasFilePermission /\ disk[file.fileHandle].exists  \* else getFile() throws
                /\ db' = updateFile(db, file.id,
                           DiskVersionUpdates(disk[file.fileHandle].lastModified))
        /\ activeFileId' = IF resolution = "use-disk" /\ file # NoFile /\ file.type = "file"
                           THEN file.id
                           ELSE activeFileId
  /\ conflictFile' = NoId
  /\ conflictDiskContent' = EmptyText
  /\ lastResolution' = resolution
  /\ UNCHANGED <<isSyncing, plFocus, od, sched, disk, now, perm, nextGen, chk, sv, rs, pl, rn,
                 permissionLost, fileChanged>>

\* The modal's close button: clearConflict without a resolution
clearConflict ==
  /\ conflictFile # NoId
  /\ conflictFile' = NoId
  /\ conflictDiskContent' = EmptyText
  /\ lastResolution' = "close"
  /\ UNCHANGED <<isSyncing, plFocus, od, sched, db, disk, now, perm, nextGen, activeFileId, chk,
                 sv, rs, pl, rn, permissionLost, fileChanged>>

----------------------------------------------------------------------------
(* Creating and importing entries (stores/file-store.ts) *)

DefaultText == "new"                  \* the placeholder content of a created file

NameN == <<"n">>

\* createFile(name, parentPath): a web-only file, refused when the path is taken
createFile(parentPath, name) ==
  /\ nextGen < MaxGen
  /\ LET path == Join(parentPath, name)
     IN /\ path \notin Paths(db)
        /\ db' = Put(db, NewEntry([gen |-> nextGen + 1, p |-> path], path, path, NoPath,
                                  NoPath, DefaultText, TRUE, TRUE, NoTime, "web-only",
                                  "file"))
  /\ nextGen' = nextGen + 1
  /\ UNCHANGED <<isSyncing, plFocus, od, sched, disk, now, perm, activeFileId, chk, sv, rs, pl,
                 rn, sigs>>

\* uploadFolder with no node selected: the picked directory becomes a further
\* root; a scanned path already stored keeps the stored id and becomes 'modified'
uploadFolder(root) ==
  /\ nextGen < MaxGen
  /\ LET newFiles == {Prepend(f, root) : f \in scanDirectory(disk, root, nextGen + 1)}
         Existing(nf) == {ex \in db : ex.path = nf.path}
         filesToSave ==
           {IF Existing(nf) = {} THEN nf
            ELSE LET ex == CHOOSE e \in Existing(nf) : TRUE
                 IN [nf EXCEPT !.id = ex.id,
                               !.status = IF ex.isWebOnly THEN "web-only" ELSE "modified"]
              : nf \in newFiles}
         rootFolder == IF root \in Paths(db) THEN {} ELSE {RootFolderEntry(root, nextGen + 1)}
     IN /\ newFiles # {}
        /\ db' = saveFiles(db, rootFolder \cup filesToSave)
  /\ nextGen' = nextGen + 1
  /\ UNCHANGED <<isSyncing, plFocus, od, sched, disk, now, perm, activeFileId, chk, sv, rs, pl,
                 rn, sigs>>

UploadedText == "up"                  \* the text of a file picked for upload

\* uploadFiles with the folder targetPath selected and one file picked in
\* openFilePicker, of the given name, text and modification time; the user
\* confirms the overwrite warning. An entry already stored at the path keeps
\* its id, its file handle and isWebOnly; the record is otherwise a new one.
uploadFiles(targetPath, name, content, lastModified) ==
  /\ LET filePath == Join(targetPath, name)
         existing == {f \in db : f.path = filePath}
         NewFile(id, fileHandle, webOnly) ==
           NewEntry(id, filePath, filePath, fileHandle, NoPath, content, FALSE, webOnly,
                    lastModified, IF webOnly THEN "web-only" ELSE "synced", "file")
     IN IF existing = {}
        THEN /\ nextGen < MaxGen
             /\ nextGen' = nextGen + 1
             /\ db' = saveFiles(db, {NewFile([gen |-> nextGen + 1, p |-> filePath],
                                             NoPath, TRUE)})
        ELSE /\ \E ex \in existing :
                  db' = saveFiles(db, {NewFile(ex.id, ex.fileHandle, ex.isWebOnly)})
             /\ UNCHANGED nextGen
  /\ UNCHANGED <<isSyncing, plFocus, od, sched, disk, now, perm, activeFileId, chk, sv, rs, pl,
                 rn, sigs>>

\* getContent(fileId): the overlay text when there is one, else the disk text
getContent(d, dsk, id) ==
  LET file == getFile(d, id)
  IN IF file.contentOverride # NoText THEN file.contentOverride
     ELSE IF file.fileHandle # NoPath THEN dsk[file.fileHandle].content
     ELSE EmptyText

----------------------------------------------------------------------------
(* The rescans (lib/polling.ts): fullRescanFromDisk and syncFolderFromDisk *)

\* The tree walk of scanDirectory catches the error of a handle without
\* permission and returns what it has: nothing
ScanWithPermission(h, gen) == IF hasFilePermission THEN scanDirectory(disk, h, gen) ELSE {}

\* f belongs to the root: it is the root entry or lies below it
InRoot(f, rootName) == f.path = rootName \/ StartsWith(f.path, rootName \o <<Slash>>)

\* fullRescanFromDisk: the web-only entries it keeps
WebOnlyOfRoot(existingFiles, rootName) ==
  {f \in existingFiles : f.isWebOnly /\ StartsWith(f.path, rootName \o <<Slash>>)}

\* fullRescanFromDisk: allFiles = [rootFolder, ...diskFiles, ...webOnlyFiles]
FullRescanFilesKeepHidden(rootFolder, diskFiles, existingFiles, rootName) ==
  {rootFolder} \cup diskFiles \cup {f \in existingFiles : f.isWebOnly \/ f.isHidden}

FullRescanFiles(rootFolder, diskFiles, existingFiles, rootName) ==
  {rootFolder} \cup diskFiles \cup WebOnlyOfRoot(existingFiles, rootName)

\* verifyPermission(currentProjectRef.dirHandle): granted, or the user answers
\* the prompt; a refusal returns 'need-reopen' and nothing changes
FullRescanStart ==
  /\ rs.pc = "idle"
  /\ perm' = "granted"
  /\ rs' = [IdleRs EXCEPT !.pc = "scan", !.kind = "full", !.root = RootA, !.handle = RootA]
  /\ isSyncing' = TRUE
  /\ UNCHANGED <<plFocus, od, sched, db, disk, now, nextGen, activeFileId, chk, sv, pl, rn, sigs>>

\* scanDirectory of the project handle, the root name prepended, and the new
\* root folder entry (kept in rs.file)
FullRescanScan ==
  /\ rs.pc = "scan"
  /\ nextGen < MaxGen
  /\ nextGen' = nextGen + 1
  /\ rs' = [rs EXCEPT !.pc = "merge",
               !.diskFiles = {Prepend(f, rs.root) :
                                f \in ScanWithPermission(rs.handle, nextGen + 1)},
               !.file = RootFolderEntry(rs.root, nextGen + 1)]
  /\ UNCHANGED <<isSyncing, plFocus, od, sched, db, disk, now, perm, activeFileId, chk, sv, pl,
                 rn, sigs>>

\* getAllFiles and the merge with the web-only entries of this root
FullRescanMerge ==
  /\ rs.pc = "merge"
  /\ rs' = [rs EXCEPT !.pc = "clear", !.existingFiles = db,
               !.allFiles = FullRescanFiles(rs.file,
                                            rs.diskFiles, db, rs.root)]
  /\ UNCHANGED <<isSyncing, plFocus, od, sched, db, disk, now, perm, nextGen, activeFileId, chk,
                 sv, pl, rn, sigs>>

\* resolveFolderHandle(rootHandle, folderPath): the root name skipped, the other
\* segments walked with getDirectoryHandle; null when a segment is missing
resolveFolderHandle(d, rootHandle, folderPath) ==
  LET rootName == FirstSegment(folderPath)
      target == rootHandle \o SubSeq(folderPath, Len(rootName) + 1, Len(folderPath))
  IN IF Len(folderPath) = Len(rootName) THEN rootHandle
     ELSE IF DirExists(d, target) THEN target ELSE NoPath

\* syncFolderFromDisk: the entries of other roots, kept as they are
FilesFromOtherRoots(existingFiles, rootName) ==
  {f \in existingFiles : f.path # rootName /\ ~StartsWith(f.path, rootName \o <<Slash>>)}

\* syncFolderFromDisk: the entries of the same root outside the synced folder
FilesInSameRootButOutside(existingFiles, file, rootName) ==
  IF file.path = rootName THEN {}
  ELSE {f \in existingFiles :
          /\ InRoot(f, rootName)
          /\ ~StartsWith(f.path, file.path \o <<Slash>>)
          /\ f.id # file.id}

\* syncFolderFromDisk: the web-only entries inside the synced folder
WebOnlyInFolder(existingFiles, file, rootName) ==
  {f \in existingFiles :
     /\ StartsWith(f.path, file.path \o <<Slash>>) \/ (file.path = rootName /\ f.path = rootName)
     /\ f.isWebOnly
     /\ f.id # file.id}

\* syncFolderFromDisk: the folder entry itself with the resolved handle
UpdatedFolder(file, folderHandle) ==
  [file EXCEPT !.dirHandle = folderHandle, !.isHidden = FALSE, !.status = "synced"]

\* syncFolderFromDisk: allFiles
SyncFolderFiles(existingFiles, file, rootName, folderHandle, diskFiles) ==
  FilesFromOtherRoots(existingFiles, rootName)
    \cup FilesInSameRootButOutside(existingFiles, file, rootName)
    \cup {UpdatedFolder(file, folderHandle)}
    \cup diskFiles
    \cup WebOnlyInFolder(existingFiles, file, rootName)

\* syncFolderFromDisk(folderId) up to the scan: getFile, getAllFiles, the root's
\* handle, verifyPermission and the handle of the folder (reads, one step).
\* The menu offers it on folders that are not web-only.
SyncFolderStart(id) ==
  /\ rs.pc = "idle"
  /\ LET file == getFile(db, id)
         rootName == FirstSegment(file.path)
         roots == {f \in db : f.path = rootName /\ f.type = "folder"}
         found == IF roots = {} THEN {NoPath} ELSE {f.dirHandle : f \in roots}
     IN /\ file # NoFile
        /\ file.type = "folder"
        /\ ~file.isWebOnly
        /\ \E stored \in found :
             \* rootFolder?.dirHandle, else currentProjectRef's when its name matches
             LET rootDirHandle == IF stored # NoPath THEN stored
                                  ELSE IF rootName = RootA THEN RootA ELSE NoPath
                 folderHandle == resolveFolderHandle(disk, rootDirHandle, file.path)
             IN /\ rootDirHandle # NoPath
                /\ folderHandle # NoPath
                /\ rs' = [IdleRs EXCEPT !.pc = "scanFolder", !.kind = "folder",
                            !.root = rootName, !.file = file, !.handle = folderHandle,
                            !.existingFiles = db]
  /\ perm' = "granted"
  /\ isSyncing' = TRUE
  /\ UNCHANGED <<plFocus, od, sched, db, disk, now, nextGen, activeFileId, chk, sv, pl, rn, sigs>>

\* What syncFolderFromDisk does after its reads: "need-reopen" is
\* { success: false, needReopen: rootName }, "failed" is { success: false } and
\* "scan" is the way on to scanDirectory
SyncFolderOutcome(rootDirHandle, hasPermission, folderHandle) ==
  IF rootDirHandle = NoPath THEN "need-reopen"
  ELSE IF ~hasPermission THEN "need-reopen"
  ELSE IF folderHandle = NoPath THEN "failed"
  ELSE "scan"

\* syncFolderFromDisk(folderId) when it returns before the scan: no handle for
\* the root, the user refuses the permission prompt, or a segment of the
\* folder's path is not found below the root handle
SyncFolderReturn(id) ==
  /\ rs.pc = "idle"
  /\ LET file == getFile(db, id)
         rootName == FirstSegment(file.path)
         roots == {f \in db : f.path = rootName /\ f.type = "folder"}
         found == IF roots = {} THEN {NoPath} ELSE {f.dirHandle : f \in roots}
     IN /\ file # NoFile
        /\ file.type = "folder"
        /\ ~file.isWebOnly
        /\ \E stored \in found, answer \in BOOLEAN :
             LET rootDirHandle == IF stored # NoPath THEN stored
                                  ELSE IF rootName = RootA THEN RootA ELSE NoPath
                 hasPermission == hasFilePermission \/ answer
                 folderHandle == IF rootDirHandle = NoPath THEN NoPath
                                 ELSE resolveFolderHandle(disk, rootDirHandle, file.path)
                 outcome == SyncFolderOutcome(rootDirHandle, hasPermission, folderHandle)
             IN /\ outcome # "scan"
                /\ perm' = IF rootDirHandle # NoPath /\ hasPermission THEN "granted" ELSE perm
                /\ rs' = [IdleRs EXCEPT !.kind = "folder", !.root = rootName, !.file = file,
                                        !.result = outcome]
  /\ UNCHANGED <<isSyncing, plFocus, od, sched, db, disk, now, nextGen, activeFileId, chk, sv,
                 pl, rn, sigs>>

\* scanDirectory of the folder's handle and the merge of the four partitions
SyncFolderScan ==
  /\ rs.pc = "scanFolder"
  /\ nextGen < MaxGen
  /\ nextGen' = nextGen + 1
  /\ LET diskFiles == {Prepend(f, rs.file.path) :
                         f \in ScanWithPermission(rs.handle, nextGen + 1)}
     IN rs' = [rs EXCEPT !.pc = "clear", !.diskFiles = diskFiles,
                  !.allFiles = SyncFolderFiles(rs.existingFiles, rs.file, rs.root,
                                               rs.handle, diskFiles)]
  /\ UNCHANGED <<isSyncing, plFocus, od, sched, db, disk, now, perm, activeFileId, chk, sv, pl,
                 rn, sigs>>

\* await clearAllFiles()
RescanClear ==
  /\ rs.pc = "clear"
  /\ db' = {}
  /\ rs' = [rs EXCEPT !.pc = "save"]
  /\ UNCHANGED <<isSyncing, plFocus, od, sched, disk, now, perm, nextGen, activeFileId, chk, sv,
                 pl, rn, sigs>>

\* await saveFiles(allFiles), then the refresh of the view; the rescan returns
\* true (full) or { success: true } (scoped)
RescanSave ==
  /\ rs.pc = "save"
  /\ db' = saveFiles(db, rs.allFiles)
  /\ rs' = [IdleRs EXCEPT !.result = "success"]
  /\ isSyncing' = FALSE
  /\ UNCHANGED <<plFocus, od, sched, disk, now, perm, nextGen, activeFileId, chk, sv, pl, rn,
                 sigs>>

\* saveFiles(allFiles) throws: its transaction aborts and none of its puts is
\* applied; the catch of the rescan logs the error and the rescan returns
\* false (full) or { success: false } (scoped)
RescanSaveFails ==
  /\ rs.pc = "save"
  /\ rs.kind \in {"full", "folder"}
  /\ rs' = [IdleRs EXCEPT !.kind = rs.kind, !.existingFiles = rs.existingFiles,
                          !.result = "failed"]
  /\ isSyncing' = FALSE
  /\ UNCHANGED <<plFocus, od, sched, db, disk, now, perm, nextGen, activeFileId, chk, sv, pl,
                 rn, sigs>>

----------------------------------------------------------------------------
(* Reopening the folder and selecting a file (stores/file-store.ts) *)

\* "if (!hasPermission) permissionLost.value = true" of getContent, getDiskContent
\* and syncFromDisk: the flag after a permission query
FlagAfterQueryReset(flag, hasPermission) == ~hasPermission

FlagAfterQuery(flag, hasPermission) == IF ~hasPermission THEN TRUE ELSE flag

\* selectFile(fileId): the file becomes the active one (App hands it to
\* setActiveFile) and getContent loads it, from the overlay text when there is
\* one, else from disk after a permission query
selectFile(id) ==
  /\ LET file == getFile(db, id)
     IN /\ file # NoFile
        /\ file.type = "file"
        /\ permissionLost' =
             IF file.contentOverride = NoText /\ file.fileHandle # NoPath
             THEN FlagAfterQuery(permissionLost, hasFilePermission)
             ELSE permissionLost
  /\ activeFileId' = id
  /\ UNCHANGED <<isSyncing, plFocus, od, sched, db, disk, now, perm, nextGen, chk, sv, rs, pl,
                 rn, conflictFile, conflictDiskContent, fileChanged, lastResolution>>

\* openFolder: the user picks the project folder again in openDirectory and
\* verifyPermission is granted, by the browser or by the user's answer to the
\* prompt; a cancelled picker or a refusal returns false and changes nothing
OpenFolderStart ==
  /\ rs.pc = "idle"
  /\ perm' = "granted"
  /\ rs' = [IdleRs EXCEPT !.pc = "openScan", !.kind = "open", !.root = RootA,
               !.handle = RootA]
  /\ UNCHANGED <<isSyncing, plFocus, od, sched, db, disk, now, nextGen, activeFileId, chk, sv,
                 pl, rn, sigs>>

\* openFolder: scanDirectory, the root folder entry and the root name prepended
OpenFolderScan ==
  /\ rs.pc = "openScan"
  /\ nextGen < MaxGen
  /\ nextGen' = nextGen + 1
  /\ rs' = [rs EXCEPT !.pc = "openClear",
               !.allFiles = IF hasFilePermission
                            THEN openFolderFiles(disk, rs.root, nextGen + 1)
                            ELSE {RootFolderEntry(rs.root, nextGen + 1)}]
  /\ UNCHANGED <<isSyncing, plFocus, od, sched, db, disk, now, perm, activeFileId, chk, sv, pl,
                 rn, sigs>>

\* openFolder: await clearAllFiles()
OpenFolderClear ==
  /\ rs.pc = "openClear"
  /\ db' = {}
  /\ rs' = [rs EXCEPT !.pc = "openSave"]
  /\ UNCHANGED <<isSyncing, plFocus, od, sched, disk, now, perm, nextGen, activeFileId, chk, sv,
                 pl, rn, sigs>>

\* openFolder: saveFiles(allFiles), saveProject, no active file any more and
\* permissionLost reset
OpenFolderSave ==
  /\ rs.pc = "openSave"
  /\ db' = saveFiles(db, rs.allFiles)
  /\ activeFileId' = NoId
  /\ permissionLost' = FALSE
  /\ rs' = IdleRs
  /\ UNCHANGED <<isSyncing, plFocus, od, sched, disk, now, perm, nextGen, chk, sv, pl, rn,
                 conflictFile, conflictDiskContent, fileChanged, lastResolution>>

----------------------------------------------------------------------------
(* The lightweight directory scan (lib/polling.ts pollForNewFiles) *)

\* newFiles: on disk and with a path no stored entry has
NewFilesAll(onDisk, existingFiles) == onDisk

NewFiles(onDisk, existingFiles) == {f \in onDisk : f.path \notin Paths(existingFiles)}

\* queryPermission of the project handle (the scan is skipped unless granted),
\* then scanDirectory with the root name prepended
PollScan ==
  /\ pl.pc = "idle"
  /\ IF ~hasFilePermission
     THEN UNCHANGED <<pl, nextGen, isSyncing>>
     ELSE /\ nextGen < MaxGen
          /\ nextGen' = nextGen + 1
          /\ isSyncing' = TRUE
          /\ pl' = [IdlePl EXCEPT !.pc = "diff",
                      !.onDisk = {Prepend(f, RootA) :
                                    f \in scanDirectory(disk, RootA, nextGen + 1)}]
  /\ UNCHANGED <<plFocus, od, sched, db, disk, now, perm, activeFileId, chk, sv, rs, rn, sigs>>

\* getAllFiles and the difference of the two path sets
PollDiff ==
  /\ pl.pc = "diff"
  /\ LET newFiles == NewFiles(pl.onDisk, db)
     IN pl' = IF newFiles = {} THEN IdlePl
              ELSE [pl EXCEPT !.pc = "save", !.onDisk = {}, !.newFiles = newFiles]
  /\ isSyncing' = IF NewFiles(pl.onDisk, db) = {} THEN FALSE ELSE isSyncing
  /\ UNCHANGED <<plFocus, od, sched, db, disk, now, perm, nextGen, activeFileId, chk, sv, rs,
                 rn, sigs>>

\* saveFiles(newFiles)
PollSave ==
  /\ pl.pc = "save"
  /\ db' = saveFiles(db, pl.newFiles)
  /\ pl' = IdlePl
  /\ isSyncing' = FALSE
  /\ UNCHANGED <<plFocus, od, sched, disk, now, perm, nextGen, activeFileId, chk, sv, rs, rn,
                 sigs>>

----------------------------------------------------------------------------
(* renameFile (lib/virtual-fs.ts) *)

\* The entries renameFile rewrites after the folder itself
RenameChildren(allFiles, oldPath) ==
  {child \in allFiles : StartsWith(child.path, oldPath \o <<Slash>>)}

\* handleRenameConfirm and renameFile up to the update of the entry itself; the
\* view passes on a name that is not the current one
RenameStart(id, newName) ==
  /\ rn.pc = "idle"
  /\ LET file == getFile(db, id)
         newPath == ReplaceLastSegment(file.path, newName)
     IN /\ file # NoFile
        /\ newName # file.virtualName
        /\ db' = updateFile(db, id, [virtualName |-> newName, path |-> newPath])
        /\ rn' = IF file.type = "folder"
                 THEN [IdleRn EXCEPT !.pc = "list", !.file = file, !.newPath = newPath]
                 ELSE IdleRn
  /\ UNCHANGED <<isSyncing, plFocus, od, sched, disk, now, perm, nextGen, activeFileId, chk, sv,
                 rs, pl, sigs>>

\* getAllFiles: the children the loop will visit
RenameList ==
  /\ rn.pc = "list"
  /\ LET children == RenameChildren(db, rn.file.path)
     IN rn' = IF children = {} THEN IdleRn
              ELSE [rn EXCEPT !.pc = "children", !.allFiles = db, !.children = children]
  /\ UNCHANGED <<isSyncing, plFocus, od, sched, db, disk, now, perm, nextGen, activeFileId, chk,
                 sv, rs, pl, sigs>>

\* One turn of the loop: updateFile(child.id, path with the prefix replaced).
\* getAllFiles lists by id, an order the random ids make arbitrary.
RenameChild ==
  /\ rn.pc = "children"
  /\ \E child \in rn.children :
       /\ db' = updateFile(db, child.id,
                           [path |-> Replace(child.path, rn.file.path, rn.newPath)])
       /\ rn' = IF rn.children = {child} THEN IdleRn
                ELSE [rn EXCEPT !.children = rn.children \ {child}]
  /\ UNCHANGED <<isSyncing, plFocus, od, sched, disk, now, perm, nextGen, activeFileId, chk, sv,
                 rs, pl, sigs>>

----------------------------------------------------------------------------
(* Specification of the per-entry synchronisation: edits, checks, saves and  *)
(* conflict resolution on the entries of the opened folder, interleaved at   *)
(* every await, against a disk other programs write                          *)

Ids(d) == {f.id : f \in d}

\* selectFile has opened A/d/x: the editor and the active-file timer work on it
InitSync ==
  /\ Init
  /\ activeFileId = [gen |-> 1, p |-> FileDX]

SyncNext ==
  \/ DiskModify(FileDX)
  \/ PermissionRevoked
  \/ CheckStart(activeFileId)
  \/ CheckMeta
  \/ CheckRead
  \/ CheckConflict
  \/ CheckReload
  \/ \E t \in Texts : updateContent(activeFileId, t)
  \/ SaveStart(activeFileId)
  \/ SaveWrite
  \/ SaveStat
  \/ SaveUpdate
  \/ syncFromDisk(activeFileId)
  \/ \E r \in {"keep-web", "use-disk"} : resolveConflict(r)
  \/ clearConflict

SpecSync == InitSync /\ [][SyncNext]_vars

\* The same operations, each run to completion before the next one starts
\* (no second trigger arrives while an operation is suspended)
SyncSeqNext ==
  \/ /\ Quiet
     /\ \/ DiskModify(FileDX)
        \/ PermissionRevoked
        \/ CheckStart(activeFileId)
        \/ \E t \in Texts : updateContent(activeFileId, t)
        \/ SaveStart(activeFileId)
        \/ syncFromDisk(activeFileId)
        \/ \E r \in {"keep-web", "use-disk"} : resolveConflict(r)
        \/ clearConflict
  \/ CheckMeta
  \/ CheckRead
  \/ CheckConflict
  \/ CheckReload
  \/ SaveWrite
  \/ SaveStat
  \/ SaveUpdate

SpecSyncSeq == InitSync /\ [][SyncSeqNext]_vars

----------------------------------------------------------------------------
(* Claims on the per-entry synchronisation *)

DiskBacked(f) == f.fileHandle # NoPath /\ ~f.isWebOnly

\* C1: no silent loss. A step of the per-entry check (timer, focus or on-demand)
\* never takes a disk-backed entry that is dirty and not yet in conflict to
\* status 'synced': a dirty entry reaches 'synced' only through 'conflict' and
\* the user's resolution (or the user's own save).
NoSilentLoss ==
  [][\A f \in db :
       (chk' # chk /\ DiskBacked(f) /\ f.isDirty /\ f.status # "synced")
         => getFile(db', f.id).status # "synced"]_vars

\* C10: an entry with status 'conflict' is dirty, in every reachable state
ConflictImpliesDirty == \A f \in db : f.status = "conflict" => f.isDirty

\* C8: idempotent reconciliation.
\* (a) a check that observes a disk timestamp not greater than the stored one ends
\*     there: no field of any entry changes and no notification is raised;
\* (b) when a check has applied its transition, the entry it leaves is one on which
\*     the same check, run again against the unchanged disk, makes no transition, so
\*     status and diskLastModified after a second run are those after the first.
IdempotentCheck ==
  [][/\ (/\ chk.pc = "meta" /\ chk' # chk
         /\ hasFilePermission
         /\ disk[chk.file.fileHandle].exists
         /\ disk[chk.file.fileHandle].lastModified
               <= getFile(db, chk.file.id).diskLastModified)
        => (chk'.pc = "idle" /\ db' = db /\ sigs' = sigs)
     /\ (chk.pc \in {"conflict", "reload"} /\ chk' # chk)
        => CheckDecision(getFile(db', chk.file.id),
                         disk'[chk.file.fileHandle].lastModified) = "none"]_vars

\* C8 witness: a second check is in flight on an entry the first check put in
\* conflict, the disk unchanged since
SecondCheckAfterConflict ==
  /\ chk.pc = "meta"
  /\ chk.file.status = "conflict"
  /\ conflictFile = chk.file.id
  /\ disk[chk.file.fileHandle].lastModified = chk.file.diskLastModified

----------------------------------------------------------------------------
(* Specification of the rescans: a full rescan of the project, a scoped      *)
(* rescan of one folder and the lightweight scan, interleaved at their       *)
(* awaits with each other, with the creation, edit and import of entries    *)
(* and with other programs creating files                                    *)

WebOnlyIds(d) == {f.id : f \in {g \in d : g.isWebOnly /\ g.type = "file"}}
FolderIds(d) == {f.id : f \in {g \in d : g.type = "folder"}}

RescanNext ==
  \/ DiskCreate(FileN)
  \/ createFile(RootA, NameN)
  \/ \E id \in WebOnlyIds(db) : updateContent(id, "t1")
  \/ uploadFolder(RootB)
  \/ FullRescanStart
  \/ FullRescanScan
  \/ FullRescanMerge
  \/ \E id \in FolderIds(db) : SyncFolderStart(id)
  \/ SyncFolderScan
  \/ RescanClear
  \/ RescanSave
  \/ PollScan
  \/ PollDiff
  \/ PollSave

SpecRescan == Init /\ [][RescanNext]_vars

----------------------------------------------------------------------------
(* Claims on the rescans *)

\* C2: atomic rescan. The only change a full or scoped rescan in flight makes to
\* the stored set is its replacement by the complete post-rescan set, so that a
\* reader sees the pre-rescan set or the post-rescan set and nothing else.
AtomicRescan ==
  [][(rs.pc \in {"clear", "save"} /\ rs' # rs /\ db' # db) => db' = rs.allFiles]_vars

\* C3: web-only preservation. When a full or scoped rescan completes, every
\* web-only entry under the affected root that the rescan read is stored with
\* the same contentOverride and with status 'web-only'.
WebOnlyPreserved ==
  [][(rs.pc = "save" /\ rs'.pc = "idle")
       => \A f \in rs.existingFiles :
            (f.isWebOnly /\ StartsWith(f.path, rs.root \o <<Slash>>))
              => \E g \in db' : /\ g.id = f.id
                                /\ g.path = f.path
                                /\ g.contentOverride = f.contentOverride
                                /\ g.status = "web-only"]_vars

\* C4: when a full rescan of the current root completes, every entry of another
\* root that was stored is stored unchanged.
FullRescanKeepsOtherRoots ==
  [][(rs.pc = "save" /\ rs.kind = "full" /\ rs'.pc = "idle")
       => \A f \in rs.existingFiles :
            (f.path # rs.root /\ ~StartsWith(f.path, rs.root \o <<Slash>>))
              => f \in db']_vars

\* C5: root isolation. No step of a scoped rescan of a folder of root A, from
\* its start to its completion, adds, removes or changes a stored entry whose
\* path does not start with A's name and a slash (A's own root entry apart).
ScopedRescanRootIsolation ==
  [][(rs.kind = "folder" /\ rs' # rs)
       => {f \in db' : f.path # rs.root /\ ~StartsWith(f.path, rs.root \o <<Slash>>)}
            = {f \in db : f.path # rs.root /\ ~StartsWith(f.path, rs.root \o <<Slash>>)}]_vars

\* C9: no two stored entries have the same path
UniquePaths == \A f, g \in db : f.path = g.path => f = g

----------------------------------------------------------------------------
(* Specification of renaming: renames to a free name, to the name of a      *)
(* sibling and to a name with a dollar sign, and creations of files; each   *)
(* operation runs to completion before the next one starts                  *)

NameE == <<"e">>
NameDX == <<"d", "x">>
NameDollar == <<"$", "$", "&">>
NewNames == {NameE, NameDX, NameDollar}

FolderD == <<"A", "/", "d">>

RenameNext ==
  \/ /\ Quiet
     /\ \/ /\ \A f \in db : Len(f.path) <= MaxPathLen
           /\ \E id \in Ids(db), newName \in NewNames : RenameStart(id, newName)
        \/ createFile(FolderD, NameN)
  \/ RenameList
  \/ RenameChild

SpecRename == Init /\ [][RenameNext]_vars

----------------------------------------------------------------------------
(* Claims on renaming *)

\* C6: renaming a folder is atomic for readers. In no state does the renamed
\* folder carry its new path while an entry below it still carries the old
\* prefix.
NoPartialRename ==
  rn.pc # "idle"
    => ~(/\ getFile(db, rn.file.id).path = rn.newPath
         /\ \E f \in db : StartsWith(f.path, rn.file.path \o <<Slash>>))

\* C7: path-prefix rename consistency. When renameFile of folder F completes, F2
\* being the path the folder now has: every entry that was below F has its
\* prefix F replaced by F2, no stored path begins with F and a slash, and every
\* other entry (a sibling whose name starts with F's name too) has the path it
\* had.
RenameConsistency ==
  [][(rn.pc \in {"list", "children"} /\ rn'.pc = "idle")
       => LET F == rn.file.path
              F2 == getFile(db', rn.file.id).path
              before == IF rn.pc = "list" THEN db ELSE rn.allFiles
          IN /\ \A g \in db' : ~StartsWith(g.path, F \o <<Slash>>)
             /\ \A f \in before :
                  getFile(db', f.id).path =
                    IF f.id = rn.file.id THEN f.path
                    ELSE IF StartsWith(f.path, F \o <<Slash>>)
                         THEN F2 \o SubSeq(f.path, Len(F) + 1, Len(f.path))
                         ELSE f.path]_vars

----------------------------------------------------------------------------
(* Claims on web-only entries *)

\* C11: a web-only entry is bound to nothing on disk. In every reachable state
\* an entry with isWebOnly has no file handle, no directory handle and no
\* realPath.
WebOnlyHasNoDiskBinding ==
  \A f \in db :
    f.isWebOnly => f.fileHandle = NoPath /\ f.dirHandle = NoPath /\ f.realPath = NoPath

\* C12: 'web-only' is a sink until the entry is saved to disk. In every
\* reachable state an entry with isWebOnly has status 'web-only'.
WebOnlyStatus == \A f \in db : f.isWebOnly => f.status = "web-only"

----------------------------------------------------------------------------
(* Specification of permission loss and reconnection: the browser revokes    *)
(* the permission, timer ticks and focus events run the per-entry check and  *)
(* the lightweight scan, the user selects files, edits, syncs, rescans and   *)
(* reopens the folder; each operation runs to completion before the next     *)

FileIds(d) == {f.id : f \in {g \in d : g.type = "file"}}

PermissionNext ==
  \/ /\ Quiet
     /\ \/ PermissionRevoked
        \/ DiskModify(FileDX)
        \/ DiskCreate(FileN)
        \/ \E id \in FileIds(db) : selectFile(id)
        \/ updateContent(activeFileId, "t1")
        \/ CheckStart(activeFileId)
        \/ PollScan
        \/ syncFromDisk(activeFileId)
        \/ FullRescanStart
        \/ OpenFolderStart
  \/ CheckMeta
  \/ CheckRead
  \/ CheckConflict
  \/ CheckReload
  \/ PollDiff
  \/ PollSave
  \/ FullRescanScan
  \/ FullRescanMerge
  \/ RescanClear
  \/ RescanSave
  \/ OpenFolderScan
  \/ OpenFolderClear
  \/ OpenFolderSave

SpecPermission == Init /\ [][PermissionNext]_vars

----------------------------------------------------------------------------
(* Claims on permission loss *)

\* C13: when the permission query of a background check returns a result other
\* than granted, the permissionLost flag is true once the check has ended.
PermissionLossFlagged ==
  [][(chk.pc = "meta" /\ chk' # chk /\ perm # "granted") => permissionLost']_vars

\* C14: silent skip. While permission is not granted, no step of a per-entry
\* check or of a lightweight scan (timer tick, focus event, on-demand sync,
\* manual refresh) changes a stored entry, raises a conflict or a file-changed
\* notification or regains the permission through a prompt, and the operation
\* ends at its permission query.
SilentSkipWithoutPermission ==
  [][(perm # "granted" /\ (chk' # chk \/ pl' # pl))
       => /\ db' = db
          /\ conflictFile' = conflictFile
          /\ conflictDiskContent' = conflictDiskContent
          /\ fileChanged' = fileChanged
          /\ perm' = perm
          /\ chk.pc # "idle" => chk'.pc = "idle"
          /\ pl'.pc = "idle"]_vars

\* C14 witness: a check is at its permission query, permission is not granted
\* and the disk holds a change the check would act on
CheckWithoutPermission ==
  /\ perm # "granted"
  /\ chk.pc = "meta"
  /\ disk[chk.file.fileHandle].lastModified > chk.file.diskLastModified

\* C15: permissionLost is sticky. A step takes the flag from true to false only
\* when it is the completion of openFolder, and the completion of openFolder
\* leaves it false.
StickyPermissionLost ==
  [][/\ (permissionLost /\ ~permissionLost') => (rs.pc = "openSave" /\ rs'.pc = "idle")
     /\ (rs.pc = "openSave" /\ rs'.pc = "idle") => ~permissionLost']_vars

\* C15 witness: the flag, set earlier, is still set when the reopening of the
\* folder reaches its last step
ReconnectWhileLost == permissionLost /\ rs.pc = "openSave"

----------------------------------------------------------------------------
(* Specification of the per-entry synchronisation with uploads: the         *)
(* operations of SpecSyncSeq and uploadFiles onto the folder of the active  *)
(* file, each run to completion                                             *)

NameX == <<"x">>

UploadNext ==
  \/ SyncSeqNext
  \/ /\ Quiet
     /\ fileChanged < MaxChanged
     /\ \E lastModified \in 1..now :
          uploadFiles(FolderD, NameX, UploadedText, lastModified)

SpecUpload == InitSync /\ [][UploadNext]_vars

----------------------------------------------------------------------------
(* Claims on the transitions of the per-entry check *)

\* C16: the conflict transition. A check that observes, with permission, a disk
\* timestamp greater than the stored one on a dirty entry goes on to read the
\* disk text and to raise the conflict; the step that raises it leaves the
\* entry with status 'conflict' and the observed diskLastModified,
\* contentOverride and isDirty as they were, and sets the conflict signals to
\* that entry and to the disk text.
ConflictTransition ==
  [][LET f == getFile(db, chk.file.id)
         g == getFile(db', chk.file.id)
         onDisk == disk[chk.file.fileHandle]
     IN /\ (/\ chk.pc = "meta" /\ chk' # chk
            /\ perm = "granted" /\ onDisk.exists
            /\ f.isDirty /\ onDisk.lastModified > f.diskLastModified)
           => chk'.pc = "read"
        /\ (chk.pc = "read" /\ chk' # chk) => chk'.pc = "conflict"
        /\ (chk.pc = "conflict" /\ chk' # chk)
           => /\ g.status = "conflict"
              /\ g.diskLastModified = onDisk.lastModified
              /\ g.contentOverride = f.contentOverride
              /\ g.isDirty = f.isDirty
              /\ f.isDirty
              /\ conflictFile' = f.id
              /\ conflictDiskContent' = onDisk.content]_vars

\* C16 witness: a conflict has been raised on a dirty entry and is shown
ConflictRaised ==
  /\ chk.pc = "idle"
  /\ conflictFile # NoId
  /\ getFile(db, conflictFile).status = "conflict"
  /\ getFile(db, conflictFile).isDirty
  /\ conflictDiskContent = disk[getFile(db, conflictFile).fileHandle].content

\* C17: the auto-reload. The step of a check that reloads a clean entry leaves
\* it with the observed diskLastModified and status 'synced', notifies the
\* listeners, and leaves contentOverride null, so that getContent returns the
\* text now on disk.
AutoReload ==
  [][(chk.pc = "reload" /\ chk' # chk)
       => LET g == getFile(db', chk.file.id)
              onDisk == disk[chk.file.fileHandle]
          IN /\ g.diskLastModified = onDisk.lastModified
             /\ g.status = "synced"
             /\ fileChanged' = fileChanged + 1
             /\ g.contentOverride = NoText
             /\ getContent(db', disk', g.id) = onDisk.content]_vars

----------------------------------------------------------------------------
(* Claims on the resolution of a conflict *)

\* C18: use-disk. The step in which the user presses "use disk" in the conflict
\* modal on an entry in conflict leaves the entry with contentOverride null,
\* isDirty false, status 'synced' and diskLastModified equal to the timestamp the
\* disk has, changes no other field and writes nothing to disk.
UseDiskResolution ==
  [][LET f == getFile(db, conflictFile)
         g == getFile(db', conflictFile)
     IN (/\ conflictFile # NoId /\ conflictFile' = NoId
         /\ lastResolution' = "use-disk"
         /\ f # NoFile /\ f.status = "conflict")
        => /\ g = [f EXCEPT !.contentOverride = NoText, !.isDirty = FALSE,
                            !.status = "synced",
                            !.diskLastModified = disk[f.fileHandle].lastModified]
           /\ disk' = disk]_vars

\* C18 witness: the user has pressed "use disk" on a conflict raised by an
\* external change; the modal is closed and the entry, now the active one, is
\* synced at the disk's timestamp with no override
UseDiskTaken ==
  /\ lastResolution = "use-disk"
  /\ conflictFile = NoId
  /\ activeFileId # NoId
  /\ LET g == getFile(db, activeFileId)
     IN /\ g # NoFile
        /\ g.status = "synced"
        /\ g.contentOverride = NoText
        /\ ~g.isDirty
        /\ g.diskLastModified = disk[g.fileHandle].lastModified
        /\ disk[g.fileHandle].content = ExternalText

\* C19: keep-web. The step in which the user presses "keep web" in the conflict
\* modal on an entry in conflict sets the status to 'modified' and changes no
\* other field (contentOverride, isDirty and diskLastModified stay) and nothing
\* on disk, and on the entry it leaves a per-entry check makes no transition
\* while the disk has the timestamp the conflict recorded.
KeepWebResolution ==
  [][LET f == getFile(db, conflictFile)
         g == getFile(db', conflictFile)
     IN (/\ conflictFile # NoId /\ conflictFile' = NoId
         /\ lastResolution' = "keep-web"
         /\ f # NoFile /\ f.status = "conflict")
        => /\ g = [f EXCEPT !.status = "modified"]
           /\ disk' = disk
           /\ disk[f.fileHandle].lastModified <= f.diskLastModified
                => CheckDecision(g, disk[f.fileHandle].lastModified) = "none"]_vars

\* C19 witness: the user has pressed "keep web", and a check is in flight on the
\* dirty entry it left, the disk still at the timestamp the conflict recorded
CheckAfterKeepWeb ==
  /\ lastResolution = "keep-web"
  /\ chk.pc = "meta"
  /\ conflictFile = NoId
  /\ chk.file.status = "modified"
  /\ chk.file.isDirty
  /\ chk.file.contentOverride # NoText
  /\ chk.file.diskLastModified > 1
  /\ disk[chk.file.fileHandle].lastModified = chk.file.diskLastModified
  /\ disk[chk.file.fileHandle].content = ExternalText

-----------------------------------------------------------------------------
(* Claims on saving *)

\* C20: the step that ends a successful saveToDisk of a dirty disk-backed entry
\* leaves the entry with contentOverride null, isDirty false, status 'synced'
\* and, as diskLastModified, the timestamp of the version the save wrote: when
\* the disk still has the stored timestamp its content is the former
\* contentOverride, and a per-entry check at that timestamp makes no transition.
SaveRoundTrip ==
  [][(/\ sv.pc = "update" /\ sv'.pc = "idle"
      /\ sv.file.isDirty /\ sv.file.contentOverride # NoText
      /\ DiskBacked(sv.file)
      /\ getFile(db, sv.file.id) # NoFile)
       => LET g == getFile(db', sv.file.id)
              onDisk == disk'[sv.file.fileHandle]
          IN /\ g.contentOverride = NoText
             /\ ~g.isDirty
             /\ g.status = "synced"
             /\ onDisk.lastModified = g.diskLastModified
                  => /\ onDisk.content = sv.file.contentOverride
                     /\ CheckDecision(g, onDisk.lastModified) = "none"]_vars

-----------------------------------------------------------------------------
(* Specification of failing disk accesses: checks and saves of the selected  *)
(* file, disk-backed or web-only, one operation at a time, while other       *)
(* programs modify and delete the file and the browser drops the permission  *)
(* at any moment, also between two awaits of an operation                    *)

FailureNext ==
  \/ DiskModify(FileDX)
  \/ DiskDelete(FileDX)
  \/ PermissionRevoked
  \/ /\ Quiet
     /\ \/ createFile(RootA, NameN)
        \/ \E id \in FileIds(db) : selectFile(id)
        \/ updateContent(activeFileId, "t1")
        \/ CheckStart(activeFileId)
        \/ SaveStart(activeFileId)
  \/ CheckMeta
  \/ CheckRead
  \/ CheckConflict
  \/ CheckReload
  \/ SaveWrite
  \/ SaveStat
  \/ SaveUpdate
  \/ SavePick
  \/ SaveUpdateNew

SpecFailure == Init /\ [][FailureNext]_vars

\* C21: a failed operation leaves the entry as it was. The step of a per-entry
\* check or of a saveToDisk whose disk access is refused or finds the file gone,
\* and the step in which the save picker of a web-only entry is cancelled, end
\* the operation and change no stored entry: the entry is the record the
\* operation read at its start, with its contentOverride, isDirty, isWebOnly,
\* status and diskLastModified, and no conflict or file-changed signal is raised.
FailureKeepsEntry ==
  [][LET Refused(h) == perm # "granted" \/ ~disk[h].exists
     IN /\ (/\ chk.pc \in {"meta", "read"} /\ chk' # chk
            /\ Refused(chk.file.fileHandle))
           => /\ chk'.pc = "idle"
              /\ db' = db /\ sigs' = sigs
              /\ getFile(db', chk.file.id) = chk.file
        /\ (/\ sv.pc \in {"write", "stat"} /\ sv' # sv
            /\ Refused(sv.file.fileHandle))
           => /\ sv'.pc = "idle"
              /\ db' = db /\ sigs' = sigs
              /\ getFile(db', sv.file.id) = sv.file
        /\ (sv.pc = "pick" /\ sv'.pc = "idle")
           => /\ db' = db /\ sigs' = sigs /\ disk' = disk
              /\ getFile(db', sv.file.id) = sv.file
              /\ sv.file.isWebOnly]_vars

\* C21 witness: a save has written the dirty entry's text to disk and the file
\* is deleted before writeFileContent reads its timestamp back
SaveFailsAfterWrite ==
  /\ sv.pc = "stat"
  /\ sv.file.isDirty
  /\ sv.file.status = "modified"
  /\ hasFilePermission
  /\ ~disk[sv.handle].exists

-----------------------------------------------------------------------------
(* Claims on syncFromDisk *)

\* C22: every step of syncFromDisk on the selected entry, when the permission
\* is not granted, changes no stored entry and leaves permissionLost true; when
\* it is granted, leaves the entry with contentOverride null, isDirty false,
\* status 'synced' and diskLastModified equal to the disk timestamp, the other
\* fields and the flag as they were.
SyncFromDiskEffect ==
  [][syncFromDisk(activeFileId)
       => LET f == getFile(db, activeFileId)
              g == getFile(db', activeFileId)
          IN IF perm # "granted"
             THEN db' = db /\ permissionLost'
             ELSE /\ g = [f EXCEPT !.contentOverride = NoText, !.isDirty = FALSE,
                                   !.status = "synced",
                                   !.diskLastModified = disk[f.fileHandle].lastModified]
                  /\ permissionLost' = permissionLost]_vars

\* C22 witness: an entry scanned when the folder was opened is clean and synced
\* at the timestamp of a later external write although no check has reloaded it
\* and no conflict was raised: syncFromDisk has brought it there
SyncedFromDisk ==
  /\ fileChanged = 0
  /\ conflictFile = NoId
  /\ \E f \in db : /\ f.id.gen = 1
                   /\ f.id = activeFileId
                   /\ f.status = "synced"
                   /\ f.contentOverride = NoText
                   /\ ~f.isDirty
                   /\ f.diskLastModified > 1
                   /\ f.diskLastModified = disk[f.fileHandle].lastModified

-----------------------------------------------------------------------------
(* Deleting and hiding (lib/virtual-fs.ts hideOrDeleteFile) *)

FolderDE == <<"A", "/", "d", "/", "e">>

\* createFolder(name, parentPath): a web-only folder, refused when the path is taken
createFolder(parentPath, name) ==
  /\ nextGen < MaxGen
  /\ LET path == Join(parentPath, name)
     IN /\ path \notin Paths(db)
        /\ db' = Put(db, NewEntry([gen |-> nextGen + 1, p |-> path], path, path, NoPath,
                                  NoPath, NoText, FALSE, TRUE, NoTime, "web-only",
                                  "folder"))
  /\ nextGen' = nextGen + 1
  /\ UNCHANGED <<isSyncing, plFocus, od, sched, disk, now, perm, activeFileId, chk, sv, rs, pl,
                 rn, sigs>>

\* deleteFile(id) of the entry store
deleteFile(d, id) == {f \in d : f.id # id}

\* The orders in which getAllFiles (a listing by id, and ids are random) can
\* list the entries with the given ids
Orders(ids) ==
  {o \in [1..Cardinality(ids) -> ids] : \A i, k \in 1..Cardinality(ids) : o[i] = o[k] => i = k}

\* hideOrDeleteFile(fileId) run to its end on the store d; order is the order of
\* the listing. The entry is deleted when web-only and hidden otherwise; for a
\* folder the listing is taken after that and hideOrDeleteFile is called on
\* every listed entry whose path starts with the folder's path and a slash.
HideOrDeleteShallow(d, id, order) ==
  LET file == getFile(d, id)
  IN IF file = NoFile THEN d
     ELSE IF file.isWebOnly THEN deleteFile(d, id)
     ELSE updateFile(d, id, [isHidden |-> TRUE])

RECURSIVE HideOrDelete(_, _, _)
HideOrDelete(d, id, order) ==
  LET file == getFile(d, id)
      own == IF file.isWebOnly THEN deleteFile(d, id)
             ELSE updateFile(d, id, [isHidden |-> TRUE])
      IsChild(i) == /\ getFile(own, i) # NoFile
                    /\ StartsWith(getFile(own, i).path, file.path \o <<Slash>>)
      RECURSIVE Loop(_, _)
      Loop(dd, children) ==
        IF children = <<>> THEN dd
        ELSE Loop(HideOrDelete(dd, Head(children), order), Tail(children))
  IN IF file = NoFile THEN d
     ELSE IF file.type = "folder" THEN Loop(own, SelectSeq(order, IsChild))
     ELSE own

\* The entries below the folder with the given id, at any depth
Descendants(d, id) ==
  {f \in d : StartsWith(f.path, getFile(d, id).path \o <<Slash>>)}

\* The menu's delete on a folder: hideOrDeleteFile(node.id) to its end
hideOrDeleteFile(id) ==
  /\ getFile(db, id) # NoFile
  /\ \E order \in Orders(Ids(Descendants(db, id))) : db' = HideOrDelete(db, id, order)
  /\ UNCHANGED <<isSyncing, plFocus, od, sched, disk, now, perm, nextGen, activeFileId, chk, sv,
                 rs, pl, rn, sigs>>

\* Creations of web-only files and folders at three depths, the import of a
\* second root, and deletions of folders, one operation at a time
HideNext ==
  \/ createFolder(FolderD, NameE)
  \/ \E parentPath \in {RootA, FolderD, FolderDE} : createFile(parentPath, NameN)
  \/ uploadFolder(RootB)
  \/ \E id \in FolderIds(db) : hideOrDeleteFile(id)

SpecHide == Init /\ [][HideNext]_vars

\* C23: a step that is hideOrDeleteFile on a folder leaves the folder and every
\* stored descendant, at any depth, removed when it was web-only and otherwise
\* the same but for isHidden = true; every other entry is stored unchanged,
\* nothing is added and the disk is as it was.
HideOrDeleteSubtree ==
  [][\A id \in FolderIds(db) :
       hideOrDeleteFile(id)
         => LET subtree == {getFile(db, id)} \cup Descendants(db, id)
            IN /\ \A f \in subtree :
                    IF f.isWebOnly THEN getFile(db', f.id) = NoFile
                    ELSE getFile(db', f.id) = [f EXCEPT !.isHidden = TRUE]
               /\ \A f \in db \ subtree : f \in db'
               /\ Ids(db') \subseteq Ids(db)
               /\ disk' = disk]_vars

\* C23 witness: folder A/d is hidden with its file A/d/x; the web-only folder
\* A/d/e and the web-only file created below A/d are gone; the sibling A/dx and
\* the root are not hidden
FolderHidden ==
  /\ nextGen = MaxGen
  /\ \A f \in db : ~f.isWebOnly
  /\ \E f \in db : f.path = FolderD /\ f.isHidden
  /\ \E f \in db : f.path = FileDX /\ f.isHidden
  /\ \E f \in db : f.path = FileDXs /\ ~f.isHidden
  /\ \E f \in db : f.path = RootA /\ ~f.isHidden

-----------------------------------------------------------------------------
(* Specification of the scans: other programs create and delete files, the  *)
(* browser drops the permission, the user creates web-only files, hides      *)
(* folders and asks for a full rescan or the rescan of one folder, and the   *)
(* directory timer scans; one operation at a time                            *)

PollNext ==
  \/ /\ Quiet
     /\ \/ DiskCreate(FileN)
        \/ DiskDelete(FileDX)
        \/ createFile(RootA, NameN)
        \/ \E id \in FolderIds(db) : hideOrDeleteFile(id)
        \/ PollScan
        \/ FullRescanStart
        \/ PermissionRevoked
        \/ \E id \in FolderIds(db) : SyncFolderStart(id)
        \/ \E id \in FolderIds(db) : SyncFolderReturn(id)
  \/ SyncFolderScan
  \/ PollDiff
  \/ PollSave
  \/ FullRescanScan
  \/ FullRescanMerge
  \/ RescanClear
  \/ RescanSave

SpecPoll == Init /\ [][PollNext]_vars

\* C24: no step of the lightweight scan deletes or changes a stored entry, and
\* every entry it adds is the scanned entry of a file or folder that is on disk
\* at a path no stored entry had.
PollOnlyInserts ==
  [][(pl' # pl)
       => /\ db \subseteq db'
          /\ \A g \in db' \ db :
               /\ g.path \notin Paths(db)
               /\ g \in {Prepend(f, RootA) : f \in scanDirectory(disk, RootA, g.id.gen)}]_vars

\* C24 witness: the scan has inserted the entry of a file another program
\* created, while a hidden entry and an entry whose file is gone from disk are
\* stored
PollInserted ==
  /\ pl.pc = "idle"
  /\ \E g \in db : g.id.gen > 1 /\ g.fileHandle = FileN /\ g.status = "synced"
  /\ \E f \in db : f.id.gen = 1 /\ f.isHidden
  /\ \E f \in db : f.id.gen = 1 /\ f.fileHandle = FileDX /\ ~disk[FileDX].exists

UnresolvedFolderNeedsReopen ==
  [][\A id \in FolderIds(db) :
       (/\ SyncFolderReturn(id)
        /\ rs'.result # "none"
        /\ perm' = "granted"
        /\ resolveFolderHandle(disk, RootA, getFile(db, id).path) = NoPath)
         => /\ rs'.result = "need-reopen"
            /\ db' = db]_vars

-----------------------------------------------------------------------------
(* Specification of the scans with a failing storage layer: the operations   *)
(* of SpecPoll, and the bulk insert of a rescan may throw                    *)

StorageFailureNext ==
  \/ PollNext
  \/ RescanSaveFails

SpecStorageFailure == Init /\ [][StorageFailureNext]_vars

\* C27: when the bulk insert of a full or scoped rescan throws, the stored
\* entry set is the set the rescan read before it cleared the store.
FailedRescanKeepsEntries ==
  [][(rs.pc = "save" /\ rs'.pc = "idle" /\ rs'.result = "failed")
       => db' = rs.existingFiles]_vars

-----------------------------------------------------------------------------
(* The scheduler (lib/polling.ts): startPolling, stopPolling, setActiveFile, *)
(* updatePollingInterval and the firing of the timers                        *)

\* window.setInterval(fn, period): the timer registered under the next id
Timer(id, fn, period) == [id |-> id, fn |-> fn, period |-> period]

\* clearInterval(id)
clearInterval(timers, id) == {t \in timers : t.id # id}

\* startPolling up to its await: the isPolling guard, the callbacks, isPolling = true
startPolling ==
  /\ ~sched.isPolling
  /\ sched.starting < MaxStarting
  /\ sched' = [sched EXCEPT !.isPolling = TRUE, !.starting = @ + 1]
  /\ UNCHANGED <<isSyncing, plFocus, od, db, disk, now, perm, nextGen, activeFileId, chk, sv,
                 rs, pl, rn, sigs>>

\* startPolling after getSettings: the interval of the settings, the two
\* timers and the focus listener
startPollingResume ==
  /\ sched.starting > 0
  /\ sched.nextTimer + 2 <= MaxTimers
  /\ LET interval == IF sched.settings # 0 THEN sched.settings ELSE DEFAULT_ACTIVE_INTERVAL
         active == Timer(sched.nextTimer + 1, "pollActiveFile", interval)
         dirScan == Timer(sched.nextTimer + 2, "pollForNewFiles", DIR_SCAN_INTERVAL)
     IN sched' = [sched EXCEPT !.starting = @ - 1,
                               !.currentInterval = interval,
                               !.activeTimer = active.id,
                               !.dirScanTimer = dirScan.id,
                               !.timers = @ \cup {active, dirScan},
                               !.focus = TRUE,
                               !.nextTimer = @ + 2]
  /\ UNCHANGED <<isSyncing, plFocus, od, db, disk, now, perm, nextGen, activeFileId, chk, sv,
                 rs, pl, rn, sigs>>

\* stopPolling
stopPolling ==
  /\ sched' = [sched EXCEPT
                 !.timers = clearInterval(clearInterval(@, sched.activeTimer),
                                          sched.dirScanTimer),
                 !.activeTimer = NoTimer,
                 !.dirScanTimer = NoTimer,
                 !.focus = FALSE,
                 !.isPolling = FALSE]
  /\ UNCHANGED <<isSyncing, plFocus, od, db, disk, now, perm, nextGen, activeFileId, chk, sv,
                 rs, pl, rn, sigs>>

\* setActiveFile(fileId)
setActiveFile(id) ==
  /\ activeFileId' = id
  /\ UNCHANGED <<isSyncing, od, db, disk, now, perm, nextGen, chk, sv, rs, pl, rn, sched,
                 plFocus, sigs>>

\* The timers after updatePollingInterval: the active-file timer, when there is
\* one, cleared and set again with the new period
RestartedTimersKeepOld(sc, intervalMs) ==
  IF sc.activeTimer # NoTimer
  THEN sc.timers \cup {Timer(sc.nextTimer + 1, "pollActiveFile", intervalMs)}
  ELSE sc.timers

RestartedTimers(sc, intervalMs) ==
  IF sc.activeTimer # NoTimer
  THEN clearInterval(sc.timers, sc.activeTimer)
         \cup {Timer(sc.nextTimer + 1, "pollActiveFile", intervalMs)}
  ELSE sc.timers

\* handlePollingIntervalChange: saveSettings, then updatePollingInterval(intervalMs)
updatePollingInterval(intervalMs) ==
  /\ sched.nextTimer + 1 <= MaxTimers
  /\ intervalMs # sched.settings
  /\ sched' = [sched EXCEPT
                 !.settings = intervalMs,
                 !.currentInterval = intervalMs,
                 !.timers = RestartedTimers(sched, intervalMs),
                 !.activeTimer = IF @ # NoTimer THEN sched.nextTimer + 1 ELSE @,
                 !.nextTimer = IF sched.activeTimer # NoTimer THEN @ + 1 ELSE @]
  /\ UNCHANGED <<isSyncing, plFocus, od, db, disk, now, perm, nextGen, activeFileId, chk, sv,
                 rs, pl, rn, sigs>>

\* A registered active-file timer fires: pollActiveFile returns unless there is
\* an active file and isPolling, else getFile and checkFileChange
ActiveTimerFires ==
  /\ \E t \in sched.timers : t.fn = "pollActiveFile"
  /\ activeFileId # NoId
  /\ sched.isPolling
  /\ CheckStart(activeFileId)

\* A registered directory timer fires: pollForNewFiles
DirTimerFires ==
  /\ \E t \in sched.timers : t.fn = "pollForNewFiles"
  /\ PollScan

\* The window gets the focus while the listener is registered: handleWindowFocus
\* runs pollForNewFiles and then syncFileOnDemand of the active file; the two
\* are started here as separate operations
FocusFires ==
  /\ sched.focus
  /\ \/ PollScan
     \/ activeFileId # NoId /\ CheckStart(activeFileId)

\* The scheduler with its calls interleaved at the await of startPolling, the
\* timers firing while they are registered, and the disk changing
SchedulerNext ==
  \/ startPolling
  \/ startPollingResume
  \/ stopPolling
  \/ \E id \in FileIds(db) \cup {NoId} : setActiveFile(id)
  \/ \E intervalMs \in IntervalOptions : updatePollingInterval(intervalMs)
  \/ ActiveTimerFires
  \/ DirTimerFires
  \/ FocusFires
  \/ CheckMeta
  \/ CheckReload
  \/ PollDiff
  \/ PollSave
  \/ DiskModify(FileDX)
  \/ DiskCreate(FileN)

SpecScheduler == Init /\ [][SchedulerNext]_vars

\* C28: once stopPolling has returned, and until startPolling is called again,
\* no timer and no focus listener is registered, whatever startPolling call was
\* suspended at its await when stopPolling ran: in every state in which
\* isPolling is false the window holds no timer and no listener of the
\* scheduler. (stopPolling leaves an operation in flight to complete.)
NothingRegisteredAfterStop ==
  ~sched.isPolling => (sched.timers = {} /\ ~sched.focus)

\* C29: a step that is setActiveFile changes the active file id and nothing
\* else: the timers, their ids (and with them their phase) and every operation
\* in flight are as they were. A step that is updatePollingInterval while
\* polling is running removes the active-file timer from the registered timers
\* and registers exactly one new one, with the new period; the directory-scan
\* timer is the same timer as before.
SchedulerFrame ==
  [][/\ \A id \in FileIds(db) \cup {NoId} :
          setActiveFile(id)
            => /\ activeFileId' = id
               /\ sched' = sched /\ db' = db /\ chk' = chk /\ pl' = pl
     /\ \A intervalMs \in IntervalOptions :
          (updatePollingInterval(intervalMs) /\ sched.isPolling /\ sched.activeTimer # NoTimer)
            => LET added == sched'.timers \ sched.timers
                   removed == sched.timers \ sched'.timers
                   DirScan(sc) == {t \in sc.timers : t.fn = "pollForNewFiles"}
               IN /\ removed = {t \in sched.timers : t.id = sched.activeTimer}
                  /\ removed # {}
                  /\ added = {Timer(sched'.activeTimer, "pollActiveFile", intervalMs)}
                  /\ sched'.currentInterval = intervalMs
                  /\ DirScan(sched') = DirScan(sched)
                  /\ sched'.dirScanTimer = sched.dirScanTimer]_vars

\* C29 witness: polling is running with an active file, and the active-file
\* timer is one set after the directory-scan timer, with the period of one
\* minute the user chose: updatePollingInterval has restarted it
IntervalRestarted ==
  /\ sched.isPolling
  /\ activeFileId # NoId
  /\ sched.dirScanTimer # NoTimer
  /\ sched.activeTimer > sched.dirScanTimer
  /\ sched.currentInterval = 60000
  /\ \E t \in sched.timers : t.id = sched.activeTimer /\ t.period = 60000

\* The scheduler of project A while a second folder, B, is imported with
\* uploadFolder and a file of either root is selected: the timers and the
\* focus listener fire, and the disk changes under both roots
RootsNext ==
  \/ /\ Quiet
     /\ sched.starting = 0
     /\ \/ startPolling
        \/ uploadFolder(RootB)
        \/ \E id \in FileIds(db) : selectFile(id)
        \/ DiskModify(FileBY)
        \/ DiskModify(FileDX)
        \/ DiskCreate(FileN)
  \/ startPollingResume
  \/ ActiveTimerFires
  \/ DirTimerFires
  \/ FocusFires
  \/ CheckMeta
  \/ CheckReload
  \/ PollDiff
  \/ PollSave

SpecRoots == Init /\ [][RootsNext]_vars

\* The stored entries of the roots other than the current project's
OtherRoots(d) == {f \in d : ~InRoot(f, RootA)}

\* C30: a step of a check started by a timer or by the focus listener (the
\* start of the check of the active file or of the directory scan, and every
\* later step of either) leaves the stored entries of the roots other than the
\* current project's exactly as they were
BackgroundChecksKeepOtherRoots ==
  [][(\/ ActiveTimerFires \/ DirTimerFires \/ FocusFires
      \/ CheckMeta \/ CheckReload \/ PollDiff \/ PollSave)
       => OtherRoots(db') = OtherRoots(db)]_vars

----------------------------------------------------------------------------
(* syncFileOnDemand (lib/polling.ts): the per-entry check run when a file is *)
(* opened, by handleWindowFocus and by manualRefresh, next to the check of   *)
(* the active-file timer; it raises isSyncing and lowers it when it returns  *)

\* isSyncing = true, getFile, then the guards of checkFileChange; a return
\* before the first disk access lowers isSyncing in the finally block
syncFileOnDemand(id) ==
  /\ od.pc = "idle"
  /\ LET file == getFile(db, id)
     IN IF file = NoFile \/ file.fileHandle = NoPath \/ file.isWebOnly
        THEN /\ isSyncing' = FALSE
             /\ UNCHANGED od
        ELSE /\ isSyncing' = TRUE
             /\ od' = [IdleChk EXCEPT !.pc = "meta", !.file = file]
  /\ UNCHANGED <<plFocus, sched, db, disk, now, perm, nextGen, activeFileId, chk, sv, rs, pl,
                 rn, sigs>>

\* hasFilePermission and getFileMetadata, then the comparison
OnDemandMeta ==
  /\ od.pc = "meta"
  /\ LET h == od.file.fileHandle
         decision == CheckDecision(od.file, disk[h].lastModified)
     IN IF HandleFails(disk, h) \/ decision = "none"
        THEN /\ od' = IdleChk
             /\ isSyncing' = FALSE
        ELSE /\ od' = [od EXCEPT !.pc = IF decision = "conflict" THEN "read" ELSE "reload",
                                 !.diskModified = disk[h].lastModified]
             /\ UNCHANGED isSyncing
  /\ UNCHANGED <<plFocus, sched, db, disk, now, perm, nextGen, activeFileId, chk, sv, rs, pl,
                 rn, sigs>>

\* readFileContent for the conflict modal
OnDemandRead ==
  /\ od.pc = "read"
  /\ LET h == od.file.fileHandle
     IN IF HandleFails(disk, h)
        THEN /\ od' = IdleChk
             /\ isSyncing' = FALSE
        ELSE /\ od' = [od EXCEPT !.pc = "conflict", !.diskContent = disk[h].content]
             /\ UNCHANGED isSyncing
  /\ UNCHANGED <<plFocus, sched, db, disk, now, perm, nextGen, activeFileId, chk, sv, rs, pl,
                 rn, sigs>>

\* updateFile(status: 'conflict'), the conflict signals and onConflictDetected
OnDemandConflict ==
  /\ od.pc = "conflict"
  /\ db' = updateFile(db, od.file.id, ConflictUpdates(od.diskModified))
  /\ conflictFile' = od.file.id
  /\ conflictDiskContent' = od.diskContent
  /\ od' = IdleChk
  /\ isSyncing' = FALSE
  /\ UNCHANGED <<plFocus, sched, disk, now, perm, nextGen, activeFileId, chk, sv, rs, pl, rn,
                 permissionLost, fileChanged, lastResolution>>

\* updateFile(status: 'synced') and onFileChanged
OnDemandReload ==
  /\ od.pc = "reload"
  /\ db' = updateFile(db, od.file.id, ReloadUpdates(od.diskModified))
  /\ fileChanged' = fileChanged + 1
  /\ od' = IdleChk
  /\ isSyncing' = FALSE
  /\ UNCHANGED <<plFocus, sched, disk, now, perm, nextGen, activeFileId, chk, sv, rs, pl, rn,
                 conflictFile, conflictDiskContent, permissionLost, lastResolution>>

\* The check of the active-file timer and an on-demand check of the same
\* entry, interleaved at their awaits, while another program writes the file
ChecksNext ==
  \/ DiskModify(FileDX)
  \/ CheckStart(activeFileId)
  \/ CheckMeta
  \/ CheckReload
  \/ syncFileOnDemand(activeFileId)
  \/ OnDemandMeta
  \/ OnDemandReload

SpecChecks == InitSync /\ [][ChecksNext]_vars

\* The modifications other programs have made to the disk so far
DiskModifications == now - 1

\* C31: the auto-reload notifications raised so far are at most as many as the
\* modifications made to the file on disk: one modification is announced once,
\* however the checks of the entry interleave
OneReloadPerModification == fileChanged <= DiskModifications

----------------------------------------------------------------------------
(* The tree walk of scanDirectory (lib/file-system.ts) entry by entry, with  *)
(* entries whose handle cannot be read: getFileHandle, getFile or            *)
(* getDirectoryHandle rejects (the entry was removed after it was listed, or *)
(* it cannot be read)                                                        *)

\* The directories the disk may hold
DiskDirs == UNION {Ancestors(p) : p \in DiskFiles}

\* What handle.values() yields for the directory dir: its files and its
\* subdirectories
DirEntries(d, dir) ==
  {p \in DiskFiles : d[p].exists /\ ParentPath(p) = dir}
    \cup {a \in DiskDirs : ParentPath(a) = dir /\ DirExists(d, a)}

\* The files and directories that can be met below the handle h
EntriesBelow(h) == {p \in DiskFiles \cup DiskDirs : StartsWith(p, h \o <<Slash>>)}

\* The entries of dir in the order handle.values() yields them; order lists
\* every entry that can be met, and the iteration order is the platform's
Listing(d, dir, order) == SelectSeq(order, LAMBDA p : p \in DirEntries(d, dir))

\* scan(handle, path, depth) from the entry at the head of entries on: the
\* paths pushed to files. The try block encloses the whole for-await loop, so
\* the rejection on one entry ends the loop of its directory; the walk of the
\* parent directory goes on.
RECURSIVE scan(_, _, _, _)
scan(d, entries, unreadable, order) ==
  IF entries = <<>> THEN {}
  ELSE LET entry == Head(entries)
       IN IF entry \in unreadable THEN {}
          ELSE {entry}
                 \cup (IF entry \in DiskFiles THEN {}
                       ELSE scan(d, Listing(d, entry, order), unreadable, order))
                 \cup scan(d, Tail(entries), unreadable, order)

\* scanDirectory(dirHandle, projectId) by its walk: the files pushed and the
\* folders pushed that hold one of them
scanDirectoryWalk(d, h, gen, unreadable, order) ==
  LET pushed == scan(d, Listing(d, h, order), unreadable, order)
      found == pushed \cap DiskFiles
      dirs == {a \in pushed \ DiskFiles : \E p \in found : StartsWith(p, a \o <<Slash>>)}
  IN {ScannedFile(d, h, p, gen) : p \in found}
       \cup {ScannedFolder(h, dir, gen) : dir \in dirs}

\* One entry at most is unreadable during one walk
Unreadables(h) == {{}} \cup {{p} : p \in EntriesBelow(h)}

\* pollForNewFiles up to the end of scanDirectory, by the walk
PollWalk(unreadable, order) ==
  /\ pl.pc = "idle"
  /\ hasFilePermission
  /\ nextGen < MaxGen
  /\ nextGen' = nextGen + 1
  /\ pl' = [IdlePl EXCEPT !.pc = "diff",
              !.onDisk = {Prepend(f, RootA) :
                            f \in scanDirectoryWalk(disk, RootA, nextGen + 1,
                                                    unreadable, order)}]
  /\ isSyncing' = TRUE
  /\ UNCHANGED <<plFocus, od, sched, db, disk, now, perm, activeFileId, chk, sv, rs, rn, sigs>>

\* The lightweight scan by its walk, while files come and go on disk
WalkNext ==
  \/ /\ Quiet
     /\ \/ DiskCreate(FileN)
        \/ DiskDelete(FileDXs)
  \/ \E unreadable \in Unreadables(RootA), order \in Orders(EntriesBelow(RootA)) :
       PollWalk(unreadable, order)
  \/ PollDiff
  \/ PollSave

SpecWalk == Init /\ [][WalkNext]_vars

\* p can be read during a walk in which the entries of unreadable cannot:
\* neither p nor a directory above p is among them
Readable(p, unreadable) == p \notin unreadable /\ Ancestors(p) \cap unreadable = {}

\* C32: after a walk of the project folder in which one entry could not be
\* read, every file of the folder that exists on disk and is readable is in
\* the scan result
WalkIsolatesFailures ==
  [][\A unreadable \in Unreadables(RootA), order \in Orders(EntriesBelow(RootA)) :
       PollWalk(unreadable, order)
         => \A p \in DiskFiles :
              (disk[p].exists /\ StartsWith(p, RootA \o <<Slash>>) /\ Readable(p, unreadable))
                => p \in {f.fileHandle : f \in pl'.onDisk}]_vars

----------------------------------------------------------------------------
(* Saving an entry that has no unsaved edits *)

\* C33: the disk write of a saveToDisk on a disk-backed entry that had no
\* overlay text and was not dirty when the save read it leaves the content of
\* the disk file as it was
CleanSaveKeepsDiskContent ==
  [][(/\ SaveWrite
      /\ sv.file.fileHandle # NoPath
      /\ sv.file.contentOverride = NoText
      /\ ~sv.file.isDirty)
       => disk'[sv.file.fileHandle].content = disk[sv.file.fileHandle].content]_vars

\* C34: when a saveToDisk ends (its updateFile) and the stored overlay text
\* is no longer the one the save read, because updateContent has stored a
\* text in between, then after that step the entry still holds that text and
\* is dirty, or the disk file holds it
EditDuringSaveSurvives ==
  [][(/\ SaveUpdate
      /\ getFile(db, sv.file.id) # NoFile
      /\ getFile(db, sv.file.id).contentOverride # NoText
      /\ getFile(db, sv.file.id).contentOverride # sv.file.contentOverride)
       => LET t == getFile(db, sv.file.id).contentOverride
              after == getFile(db', sv.file.id)
          IN \/ after.contentOverride = t /\ after.isDirty
             \/ disk'[sv.file.fileHandle].content = t]_vars

----------------------------------------------------------------------------
(* Overlay mutations during a scoped rescan *)

\* C35: when a scoped rescan clears the store, every web-only entry that is
\* stored by then and was not in the snapshot the rescan took at its start (it
\* was created, or its text was edited, since) is in the set the rescan writes
\* back, as it is stored
ScopedRescanKeepsOverlayEdits ==
  [][(RescanClear /\ rs.kind = "folder")
       => \A f \in db \ rs.existingFiles : f.isWebOnly => f \in rs.allFiles]_vars

----------------------------------------------------------------------------
(* The pollForNewFiles that handleWindowFocus starts, next to the one of the *)
(* directory-scan timer                                                      *)

\* queryPermission, isSyncing = true and scanDirectory
PollFocusScan ==
  /\ plFocus.pc = "idle"
  /\ IF ~hasFilePermission
     THEN UNCHANGED <<plFocus, nextGen, isSyncing>>
     ELSE /\ nextGen < MaxGen
          /\ nextGen' = nextGen + 1
          /\ isSyncing' = TRUE
          /\ plFocus' = [IdlePl EXCEPT !.pc = "diff",
                           !.onDisk = {Prepend(f, RootA) :
                                         f \in scanDirectory(disk, RootA, nextGen + 1)}]
  /\ UNCHANGED <<od, sched, db, disk, now, perm, activeFileId, chk, sv, rs, pl, rn, sigs>>

\* getAllFiles and the difference of the two path sets
PollFocusDiff ==
  /\ plFocus.pc = "diff"
  /\ LET newFiles == NewFiles(plFocus.onDisk, db)
     IN IF newFiles = {}
        THEN /\ plFocus' = IdlePl
             /\ isSyncing' = FALSE
        ELSE /\ plFocus' = [plFocus EXCEPT !.pc = "save", !.onDisk = {},
                                           !.newFiles = newFiles]
             /\ UNCHANGED isSyncing
  /\ UNCHANGED <<od, sched, db, disk, now, perm, nextGen, activeFileId, chk, sv, rs, pl, rn,
                 sigs>>

\* saveFiles(newFiles), and isSyncing = false in the finally block
PollFocusSave ==
  /\ plFocus.pc = "save"
  /\ db' = saveFiles(db, plFocus.newFiles)
  /\ plFocus' = IdlePl
  /\ isSyncing' = FALSE
  /\ UNCHANGED <<od, sched, disk, now, perm, nextGen, activeFileId, chk, sv, rs, pl, rn, sigs>>

\* The scan of the timer and the scan of the focus listener, interleaved at
\* their awaits, while another program creates and deletes files
ScansNext ==
  \/ DiskCreate(FileN)
  \/ DiskDelete(FileDXs)
  \/ PollScan
  \/ PollDiff
  \/ PollSave
  \/ PollFocusScan
  \/ PollFocusDiff
  \/ PollFocusSave

SpecScans == Init /\ [][ScansNext]_vars

\* C36: no two stored entries have the same path
OneEntryPerPath == \A f, g \in db : f.path = g.path => f = g

----------------------------------------------------------------------------
(* The full rescan by the walk of scanDirectory *)

\* fullRescanFromDisk: scanDirectory of the project handle by its walk, the
\* root name prepended, and the new root folder entry (kept in rs.file)
FullRescanWalk(unreadable, order) ==
  /\ rs.pc = "scan"
  /\ nextGen < MaxGen
  /\ nextGen' = nextGen + 1
  /\ rs' = [rs EXCEPT !.pc = "merge",
               !.diskFiles = {Prepend(f, rs.root) :
                                f \in scanDirectoryWalk(disk, rs.handle, nextGen + 1,
                                                        unreadable, order)},
               !.file = RootFolderEntry(rs.root, nextGen + 1)]
  /\ UNCHANGED <<isSyncing, plFocus, od, sched, db, disk, now, perm, activeFileId, chk, sv, pl,
                 rn, sigs>>

\* Full rescans, one at a time, whose walk may meet an unreadable entry, while
\* files come and go on disk
RescanWalkNext ==
  \/ /\ Quiet
     /\ \/ DiskCreate(FileN)
        \/ DiskDelete(FileDXs)
        \/ FullRescanStart
  \/ \E unreadable \in Unreadables(RootA), order \in Orders(EntriesBelow(RootA)) :
       FullRescanWalk(unreadable, order)
  \/ FullRescanMerge
  \/ RescanClear
  \/ RescanSave

SpecRescanWalk == Init /\ [][RescanWalkNext]_vars

\* C37: when a full rescan writes its set back, every disk-backed file of the
\* project that was stored before the rescan cleared the store and is on disk
\* still has a stored entry at its path
RescanKeepsFilesOnDisk ==
  [][(RescanSave /\ rs.kind = "full")
       => \A f \in rs.existingFiles :
            (/\ f.type = "file"
             /\ ~f.isWebOnly
             /\ f.fileHandle # NoPath
             /\ disk[f.fileHandle].exists
             /\ InRoot(f, RootA))
              => \E g \in db' : g.path = f.path]_vars

----------------------------------------------------------------------------
(* Reconnecting by reopening the folder *)

\* C38: when openFolder, called while the permission-lost banner is shown,
\* clears the store, the set it writes back holds every stored web-only entry
\* and, for every stored dirty entry, an entry at its path with its overlay text
ReconnectKeepsOverlay ==
  [][(OpenFolderClear /\ permissionLost)
       => \A f \in db :
            /\ f.isWebOnly => \E g \in rs.allFiles : g.path = f.path /\ g.isWebOnly
            /\ f.isDirty => \E g \in rs.allFiles : /\ g.path = f.path
                                                   /\ g.contentOverride = f.contentOverride]_vars

----------------------------------------------------------------------------
(* The isSyncing signal over overlapping sync operations *)

\* A sync operation is in flight: a lightweight scan, an on-demand sync, or a
\* full or scoped rescan past its permission check
SyncInFlight ==
  \/ pl.pc # "idle"
  \/ plFocus.pc # "idle"
  \/ od.pc # "idle"
  \/ rs.pc # "idle" /\ rs.kind \in {"full", "folder"}

\* The lightweight scan of the timer and the on-demand sync of the open file,
\* interleaved at their awaits, while another program writes the disk
SyncFlagNext ==
  \/ DiskModify(FileDX)
  \/ DiskCreate(FileN)
  \/ PollScan
  \/ PollDiff
  \/ PollSave
  \/ syncFileOnDemand(activeFileId)
  \/ OnDemandMeta
  \/ OnDemandReload

SpecSyncFlag == InitSync /\ [][SyncFlagNext]_vars

\* C39: isSyncing is true exactly while a sync operation is in flight
SyncFlagTracksOperations == isSyncing <=> SyncInFlight

----------------------------------------------------------------------------
(* Entry ids across a rescan *)

\* C40: when a full or scoped rescan writes its set back, every disk-backed
\* file that was stored before the rescan and is on disk is stored under the
\* id it had, at the path it had; the active file id, when it named such a
\* file, names a stored entry still
RescanKeepsIds ==
  [][(RescanSave /\ rs.kind \in {"full", "folder"})
       => \A f \in rs.existingFiles :
            (/\ f.type = "file"
             /\ ~f.isWebOnly
             /\ f.fileHandle # NoPath
             /\ disk[f.fileHandle].exists)
              => /\ getFile(db', f.id) # NoFile
                 /\ getFile(db', f.id).path = f.path
                 /\ activeFileId = f.id => getFile(db', activeFileId') # NoFile]_vars

====
